---- MODULE Spec2Model ----
(***************************************************************************)
(* pylrclibup: the batch driver (process_all), the per-track              *)
(* reconciliation flow (process_track), the relocation step               *)
(* (_move_after_done) and the file mover (move_with_dedup).               *)
(*                                                                         *)
(* Spec      the batch driver running process_track over the tracks; one  *)
(*           action per stretch of code between two suspension points     *)
(*           (a remote call returning, an operator answer, a file-system  *)
(*           step).                                                        *)
(* SpecMove  one call of move_with_dedup on a small file system.          *)
(***************************************************************************)
EXTENDS Integers, Sequences, FiniteSets, TLC

\* Number of tracks process_all enumerates in one batch.
MaxTracks == 2

\* Highest _dupN suffix present in the destination directory before a move.
MaxDup == 2

\* Number of times move_with_dedup is called with the same arguments.
MaxCalls == 3

\* Longest string given to normalize_name, in characters.
MaxNameLen == 3

\* Most lyric files under lrc_dir when find_lrc_for_track enumerates it.
MaxFiles == 3

\* Most lines of a lyric file given to parse_lrc_file.
MaxLines == 3

\* Deepest directory level below the root given to cleanup_empty_dirs.
MaxDepth == 3

\* Highest value of config.max_http_retries.
MaxRetries == 3

\* Number of times the normalize-only mode is run on the same lyric file.
MaxRuns == 2

None == "None"

Tracks == 1..MaxTracks

VARIABLES
    config,      \* AppConfig flags plus the auto_yes / dry_run arguments of process_all
    batch,       \* process_all: "running", "finished", "aborted", "interrupted", "crashed"
    idx,         \* the track process_all's loop is at
    outcome,     \* per track: "pending", "running", "done", "skipped", "aborted",
                 \* "crashed", "interrupted"
    nPublish,    \* per track: calls of upload_lyrics / upload_instrumental
    nRelocate,   \* per track: calls of _move_after_done
    pc,          \* position inside process_track
    site,        \* which call of find_lrc_for_track is running: "cached", "ext_ok", "local"
    cached,      \* result of api_client.get_cached: "unset", "hit" (a record), "miss" (None)
    external,    \* result of api_client.get_external: <<>> (None) or <<LyricsRecord>>
    use_ext,     \* process_track's use_ext
    choice,      \* process_track's choice: the last answer it read, None before
    candidates,  \* find_lrc_for_track's candidates
    lrc_path,    \* process_track's lrc_path
    parsed,      \* process_track's parsed: <<>> (not yet) or <<ParsedLRC>>
    published,   \* arguments and result of this track's publish call: <<>> or <<call>>
    calls,       \* this track's calls of the collaborators, counted
    asked,       \* the prompts (input()) this track has blocked on
    fs,          \* file system: the set of entries [path, id], one per existing file;
                 \* in process_track the files of the track in progress, as found when
                 \* _move_after_done starts, {} before
    mv,          \* the move_with_dedup calls made, in order: [arguments, fs before, result]
    fn           \* one call of a function on its own: [op, arg, ret, done]; <<>> if none

procVars == <<config, batch, idx, outcome, nPublish, nRelocate, pc, site, cached,
              external, use_ext, choice, candidates, lrc_path, parsed, published, calls,
              asked>>
moveVars == <<fs, mv>>
fnVars == <<fn>>
vars == <<procVars, moveVars, fnVars>>

(***************************************************************************)
(* Text.  A Python str is a sequence of units.  A unit of one character   *)
(* is that character (non-ASCII ones are written as their code point,     *)
(* "U+548C"); a longer unit stands for a run of non-whitespace.           *)
(***************************************************************************)
\* str.isspace() of a unit
IsSpace(u) == u \in {" ", "\n", "\t", "U+3000"}

RECURSIVE LStrip(_)
LStrip(t) == IF t # <<>> /\ IsSpace(Head(t)) THEN LStrip(Tail(t)) ELSE t

RECURSIVE RStrip(_)
RStrip(t) ==
    IF t # <<>> /\ IsSpace(t[Len(t)]) THEN RStrip(SubSeq(t, 1, Len(t) - 1)) ELSE t

\* str.strip()
Strip(t) == RStrip(LStrip(t))

\* Python truthiness of a str
Truthy(t) == t # <<>>

(***************************************************************************)
(* Command line -> configuration (run_cli).                                *)
(***************************************************************************)
CliArgs == [yes : BOOLEAN, dry_run : BOOLEAN, default : BOOLEAN, match : BOOLEAN]

\* -d forces auto_yes = FALSE, dry_run = FALSE and ignores -m.
RunCliConfig(args) ==
    IF args.default
    THEN [auto_yes |-> FALSE, dry_run |-> FALSE,
          pair_lrc_with_track_dir |-> TRUE, match_mode |-> FALSE]
    ELSE [auto_yes |-> args.yes, dry_run |-> args.dry_run,
          pair_lrc_with_track_dir |-> FALSE, match_mode |-> args.match]

(***************************************************************************)
(* Remote records.                                                         *)
(***************************************************************************)
ExtPlain == <<"ext-plain">>
ExtSynced == <<"[00:01.00]ext">>

\* JSON bodies of /api/get: absent or null text fields read as "" (x or "").
ApiData == [plainLyrics : {<<>>, ExtPlain},
            syncedLyrics : {<<>>, ExtSynced},
            instrumental : BOOLEAN]

\* Variant of from_api: the instrumental field is copied from the response.
from_api_copied(data) ==
    [plain |-> data.plainLyrics,
     synced |-> data.syncedLyrics,
     instrumental |-> data.instrumental]

\* LyricsRecord.from_api
from_api(data) ==
    [plain |-> data.plainLyrics,
     synced |-> data.syncedLyrics,
     instrumental |-> data.instrumental
                        \/ (~Truthy(data.plainLyrics) /\ ~Truthy(data.syncedLyrics))]

(***************************************************************************)
(* Results of parse_lrc_file the flow can meet: synced is empty, only     *)
(* line breaks (every kept line blank), or has lines; plain is empty or   *)
(* has lines; plain lines imply synced lines.                              *)
(***************************************************************************)
LocSynced == <<"[00:01.00]loc">>
LocPlain == <<"loc">>

ParseOutcomes ==
    { r \in [synced : {<<>>, <<"\n">>, LocSynced},
             plain : {<<>>, LocPlain},
             is_instrumental : BOOLEAN] :
        r.plain = LocPlain => r.synced = LocSynced }

\* Variant of TreatAsInstrumental: only the parsed flag decides.
TreatAsInstrumentalFlagOnly(p) == p.is_instrumental

\* process_track: treat_as_instrumental
TreatAsInstrumental(p) ==
    p.is_instrumental \/ (~Truthy(Strip(p.plain)) /\ ~Truthy(Strip(p.synced)))

(***************************************************************************)
(* Operator input.                                                         *)
(***************************************************************************)
YesNoInputs == {"y", "yes", "n", ""}
IsYes(ans) == ans \in {"y", "yes"}

MissingInputs == {"s", "m", "i", "q", "?"}

\* Answers to the manual-path prompt: nothing, a path that is no file, a .lrc
\* file, a file with another suffix, and a path like ~nouser/x.lrc, for which
\* Path.expanduser() raises RuntimeError.
PathInputs == {"empty", "missing", "lrc", "other", "no_home"}

\* Answers to the selection prompt of find_lrc_for_track with n candidates, by
\* what choice.isdigit() and int(choice) make of them: text that is not all
\* digits; a number 0..n+1; digits int() does not accept (isdigit() is true
\* of a superscript two, int() raises ValueError on it).
SelectionInputs(n) ==
    {[isdigit |-> FALSE, int |-> <<>>], [isdigit |-> TRUE, int |-> <<>>]}
        \cup {[isdigit |-> TRUE, int |-> <<i>>] : i \in 0..(n + 1)}

\* What the prompt loop does with answer a: "raise", "return" or "again".
Selection(a, n) ==
    IF ~a.isdigit THEN "again"
    ELSE IF a.int = <<>> THEN "raise"
    ELSE IF 1 <= a.int[1] /\ a.int[1] <= n THEN "return"
    ELSE "again"

\* Lyric files matching a track, in the order rglob yields them.
CandidateLists == {<<>>, <<"l1">>, <<"l1", "l2">>}

\* process_track passes interactive=True at each of its three calls.
FindInteractive == TRUE

PromptPcs == {"ask_use_ext", "choose", "ask_missing", "ask_path",
              "confirm_suffix", "confirm"}

NoCalls == [get_cached |-> 0, get_external |-> 0, find |-> 0, parse |-> 0,
            write |-> 0, move_with_dedup |-> 0, cleanup |-> 0]

(***************************************************************************)
(* Control transfer inside process_track.                                  *)
(***************************************************************************)
Enter(p) ==
    /\ pc' = p
    /\ asked' = IF p \in PromptPcs THEN asked \cup {p} ELSE asked
    /\ UNCHANGED <<batch, outcome>>

\* `return` from process_track
Return(o) ==
    /\ pc' = "returned"
    /\ outcome' = [outcome EXCEPT ![idx] = o]
    /\ UNCHANGED <<batch, asked>>

\* Variant of Leave: the exit is handled like a return, the loop goes on.
LeaveReturns(o) ==
    /\ pc' = "returned"
    /\ outcome' = [outcome EXCEPT ![idx] = o]
    /\ UNCHANGED <<batch, asked>>

\* An exception or SystemExit leaving process_track: process_all has no handler.
Leave(o) ==
    /\ pc' = "exit"
    /\ outcome' = [outcome EXCEPT ![idx] = o]
    /\ batch' = o
    /\ UNCHANGED asked

InitProc ==
    /\ \E args \in CliArgs : config = RunCliConfig(args)
    /\ batch = "running"
    /\ idx = 1
    /\ outcome = [t \in Tracks |-> IF t = 1 THEN "running" ELSE "pending"]
    /\ nPublish = [t \in Tracks |-> 0]
    /\ nRelocate = [t \in Tracks |-> 0]
    /\ pc = "get_cached"
    /\ site = None
    /\ cached = "unset"
    /\ external = <<>>
    /\ use_ext = FALSE
    /\ choice = None
    /\ candidates = <<>>
    /\ lrc_path = None
    /\ parsed = <<>>
    /\ published = <<>>
    /\ calls = NoCalls
    /\ asked = {}

(***************************************************************************)
(* File system and move_with_dedup.  A path is a directory, a stem and a  *)
(* suffix; the stem is the base name followed by the numbers of its _dupN *)
(* suffixes (<<"a", 1>> is "a_dup1").  Regular files only, one process.   *)
(***************************************************************************)
Dirs == {"in", "done"}

Path(d, stem, ext) == [dir |-> d, stem |-> stem, ext |-> ext]

\* Path.exists()
Exists(f, p) == \E e \in f : e.path = p

IdAt(f, p) == (CHOOSE e \in f : e.path = p).id

\* f"{stem}_dup{dedup}"
DupStem(stem, dedup) == Append(stem, dedup)

\* The while loop: the first dedup >= n whose candidate does not exist.
RECURSIVE FirstFree(_, _, _, _, _)
FirstFree(f, d, stem, ext, n) ==
    IF Exists(f, Path(d, DupStem(stem, n), ext))
    THEN FirstFree(f, d, stem, ext, n + 1)
    ELSE n

\* Path.rename on POSIX: the file at src is at target afterwards, replacing what was there.
Rename(f, src, target) ==
    {e \in f : e.path \notin {src, target}} \cup {[path |-> target, id |-> IdAt(f, src)]}

\* target = dst_dir / f"{new_name}{src.suffix}" if new_name else dst_dir / src.name
\* new_name is a stem; <<>> stands for None and for "".
TargetOf(src, dst_dir, new_name) ==
    IF new_name # <<>>
    THEN Path(dst_dir, new_name, src.ext)
    ELSE Path(dst_dir, src.stem, src.ext)

\* Variant of Dedup: no check whether the target exists.
NoDedup(f, target) == target

\* if target.exists(): the first free _dupN candidate, else target itself
Dedup(f, target) ==
    IF Exists(f, target)
    THEN Path(target.dir,
              DupStem(target.stem, FirstFree(f, target.dir, target.stem, target.ext, 1)),
              target.ext)
    ELSE target

\* Variant of MoveWithDedup: without the test whether src already is the target.
MoveWithDedupNoSameFileTest(f, src, dst_dir, new_name, fail) ==
    LET target == TargetOf(src, dst_dir, new_name)
    IN  IF fail = "mkdir"
        THEN [fs |-> f, ret |-> <<>>]
        ELSE IF fail = "rename" \/ ~Exists(f, src)
             THEN [fs |-> f, ret |-> <<>>]
             ELSE [fs |-> Rename(f, src, Dedup(f, target)),
                   ret |-> <<Dedup(f, target)>>]

\* move_with_dedup(src, dst_dir, new_name=...) on file system f.  fail names the
\* call that raises OSError, if any: "mkdir", "rename" or "none".  ret is <<>> for None.
MoveWithDedup(f, src, dst_dir, new_name, fail) ==
    LET target == TargetOf(src, dst_dir, new_name)
    IN  IF fail = "mkdir"
        THEN [fs |-> f, ret |-> <<>>]
        ELSE IF src = target
             THEN [fs |-> f, ret |-> <<src>>]
             ELSE IF fail = "rename" \/ ~Exists(f, src)
                  THEN [fs |-> f, ret |-> <<>>]
                  ELSE [fs |-> Rename(f, src, Dedup(f, target)),
                        ret |-> <<Dedup(f, target)>>]

\* Files that may exist before the call: one in the source directory, and in the
\* destination directory the same name, its _dup1.._dupMaxDup and a second name.
InitPaths ==
    {Path("in", <<"a">>, ".lrc"), Path("done", <<"a">>, ".lrc"), Path("done", <<"b">>, ".lrc")}
        \cup {Path("done", <<"a", n>>, ".lrc") : n \in 1..MaxDup}

FileOf(p) == [path |-> p, id |-> p]

MoveFails == {"none", "mkdir", "rename"}
NewNames == {<<>>, <<"a">>, <<"b">>}

\* mkdir(parents=True, exist_ok=True) cannot raise for a directory that holds a file.
CanFail(f, dst_dir, fail) == fail = "mkdir" => ~\E e \in f : e.path.dir = dst_dir

\* The record of one move_with_dedup call.
MoveRecord(f, src, dst_dir, new_name, fail) ==
    [src |-> src, dst_dir |-> dst_dir, new_name |-> new_name, fail |-> fail,
     before |-> f, ret |-> MoveWithDedup(f, src, dst_dir, new_name, fail).ret]

(***************************************************************************)
(* process_track, step by step.                                            *)
(***************************************************************************)
running == batch = "running"

\* Variant of GetCached: after a hit the flow goes on to get_external as well.
GetCachedThenExternal ==
    /\ running /\ pc = "get_cached"
    /\ \E res \in {"hit", "miss"} :
        /\ cached' = res
        /\ calls' = [calls EXCEPT !.get_cached = @ + 1]
        /\ site' = site /\ Enter("get_external")
    /\ UNCHANGED <<config, choice, idx, nPublish, nRelocate, external, use_ext,
                   candidates, lrc_path, parsed, published, moveVars, fnVars>>

\* 1. api_client.get_cached(meta); a hit goes to the lyric-file lookup and the move.
GetCached ==
    /\ running /\ pc = "get_cached"
    /\ \E res \in {"hit", "miss"} :
        /\ cached' = res
        /\ calls' = [calls EXCEPT !.get_cached = @ + 1]
        /\ IF res = "hit"
           THEN site' = "cached" /\ Enter("find")
           ELSE site' = site /\ Enter("get_external")
    /\ UNCHANGED <<config, choice, idx, nPublish, nRelocate, external, use_ext,
                   candidates, lrc_path, parsed, published, moveVars, fnVars>>

\* 2. api_client.get_external(meta); dry-run returns after the preview of a hit.
GetExternal ==
    /\ running /\ pc = "get_external"
    /\ \E res \in {<<>>} \cup {<<from_api(d)>> : d \in ApiData} :
        /\ external' = res
        /\ calls' = [calls EXCEPT !.get_external = @ + 1]
        /\ IF res # <<>>
           THEN IF config.dry_run
                THEN Return("skipped") /\ UNCHANGED <<use_ext, site>>
                ELSE IF config.auto_yes
                     THEN use_ext' = TRUE /\ Enter("upload_ext") /\ UNCHANGED site
                     ELSE Enter("ask_use_ext") /\ UNCHANGED <<use_ext, site>>
           ELSE site' = "local" /\ Enter("find") /\ UNCHANGED use_ext
    /\ UNCHANGED <<config, choice, idx, nPublish, nRelocate, cached, candidates,
                   lrc_path, parsed, published, moveVars, fnVars>>

\* input("use the external version? [y/N]")
AskUseExt ==
    /\ running /\ pc = "ask_use_ext"
    /\ \E ans \in YesNoInputs :
        /\ choice' = ans
        /\ use_ext' = IsYes(ans)
        /\ IF IsYes(ans)
           THEN Enter("upload_ext") /\ UNCHANGED site
           ELSE site' = "local" /\ Enter("find")
    /\ UNCHANGED <<config, idx, nPublish, nRelocate, cached, external, candidates,
                   lrc_path, parsed, published, calls, moveVars, fnVars>>

\* Variant of UploadExt: the external record's instrumental flag is not looked at.
UploadExtAsLyrics ==
    /\ running /\ pc = "upload_ext"
    /\ \E ok \in BOOLEAN :
        /\ published' = <<[kind |-> "lyrics", plain |-> external[1].plain,
                           synced |-> external[1].synced,
                           source |-> "external", ok |-> ok]>>
        /\ nPublish' = [nPublish EXCEPT ![idx] = @ + 1]
        /\ IF ok
           THEN site' = "ext_ok" /\ Enter("find")
           ELSE Return("skipped") /\ UNCHANGED site
    /\ UNCHANGED <<config, choice, idx, nRelocate, cached, external, use_ext, candidates,
                   lrc_path, parsed, calls, moveVars, fnVars>>

\* upload_instrumental / upload_lyrics with the external record; the result is ok.
UploadExt ==
    /\ running /\ pc = "upload_ext"
    /\ \E ok \in BOOLEAN :
        /\ published' =
              IF external[1].instrumental
              THEN <<[kind |-> "instrumental", plain |-> <<>>, synced |-> <<>>,
                      source |-> "external", ok |-> ok]>>
              ELSE <<[kind |-> "lyrics", plain |-> external[1].plain,
                      synced |-> external[1].synced,
                      source |-> "external", ok |-> ok]>>
        /\ nPublish' = [nPublish EXCEPT ![idx] = @ + 1]
        /\ IF ok
           THEN site' = "ext_ok" /\ Enter("find")
           ELSE Return("skipped") /\ UNCHANGED site
    /\ UNCHANGED <<config, choice, idx, nRelocate, cached, external, use_ext, candidates,
                   lrc_path, parsed, calls, moveVars, fnVars>>

\* Variant of AfterFind: a missing lyric file is handled as in the local branch at
\* every call site.
AfterFindNeedsLrc(path) ==
    /\ lrc_path' = path
    /\ IF path = None
       THEN IF config.dry_run THEN Return("skipped") ELSE Enter("ask_missing")
       ELSE IF site \in {"cached", "ext_ok"} THEN Enter("move") ELSE Enter("parse")

\* What follows a call of find_lrc_for_track that returned `path`.
AfterFind(path) ==
    /\ lrc_path' = path
    /\ IF site \in {"cached", "ext_ok"}
       THEN Enter("move")
       ELSE IF path = None
            THEN IF config.dry_run THEN Return("skipped") ELSE Enter("ask_missing")
            ELSE Enter("parse")

\* find_lrc_for_track up to its return or its prompt.
FindLrc ==
    /\ running /\ pc = "find"
    /\ \E cands \in CandidateLists :
        /\ candidates' = cands
        /\ calls' = [calls EXCEPT !.find = @ + 1]
        /\ IF cands = <<>>
           THEN AfterFind(None)
           ELSE IF Len(cands) = 1 \/ ~FindInteractive
                THEN AfterFind(cands[1])
                ELSE Enter("choose") /\ UNCHANGED lrc_path
    /\ UNCHANGED <<config, choice, idx, nPublish, nRelocate, site, cached, external,
                   use_ext, parsed, published, moveVars, fnVars>>

\* find_lrc_for_track's prompt: a digit string in 1..len(candidates) returns;
\* the ValueError of int(choice) leaves process_track.
ChooseLrc ==
    /\ running /\ pc = "choose"
    /\ \E a \in SelectionInputs(Len(candidates)) :
        CASE Selection(a, Len(candidates)) = "return" -> AfterFind(candidates[a.int[1]])
          [] Selection(a, Len(candidates)) = "raise" ->
                Leave("crashed") /\ UNCHANGED lrc_path
          [] OTHER -> Enter("choose") /\ UNCHANGED lrc_path
    /\ UNCHANGED <<config, choice, idx, nPublish, nRelocate, site, cached, external,
                   use_ext, candidates, parsed, published, calls, moveVars, fnVars>>

\* The no-local-lyric prompt: s skip, m manual path, i instrumental marker, q quit.
AskMissing ==
    /\ running /\ pc = "ask_missing"
    /\ \E ans \in MissingInputs :
        /\ choice' = ans
        /\ CASE ans = "s" -> Return("skipped")
             [] ans = "m" -> Enter("ask_path")
             [] ans = "i" -> Enter("upload_marker")
             [] ans = "q" -> Leave("aborted")
             [] OTHER -> Enter("ask_missing")
    /\ UNCHANGED <<config, idx, nPublish, nRelocate, site, cached, external, use_ext,
                   candidates, lrc_path, parsed, published, calls, moveVars, fnVars>>

\* input("full path of the LRC file"): empty or not an existing file re-prompts;
\* the RuntimeError of expanduser() leaves process_track.
AskPath ==
    /\ running /\ pc = "ask_path"
    /\ \E given \in PathInputs :
        CASE given \in {"empty", "missing"} ->
                Enter("ask_missing") /\ UNCHANGED lrc_path
          [] given = "no_home" ->
                Leave("crashed") /\ UNCHANGED lrc_path
          [] given = "other" ->
                Enter("confirm_suffix") /\ UNCHANGED lrc_path
          [] OTHER ->
                lrc_path' = "manual" /\ Enter("parse")
    /\ UNCHANGED <<config, choice, idx, nPublish, nRelocate, site, cached, external,
                   use_ext, candidates, parsed, published, calls, moveVars, fnVars>>

\* The file's suffix is not .lrc: continue? [y/N]
ConfirmSuffix ==
    /\ running /\ pc = "confirm_suffix"
    /\ \E ans \in YesNoInputs :
        IF IsYes(ans)
        THEN lrc_path' = "manual" /\ Enter("parse")
        ELSE Enter("ask_missing") /\ UNCHANGED lrc_path
    /\ UNCHANGED <<config, choice, idx, nPublish, nRelocate, site, cached, external,
                   use_ext, candidates, parsed, published, calls, moveVars, fnVars>>

\* Choice i: upload_instrumental(config, meta), then the move with lrc_path=None.
UploadMarker ==
    /\ running /\ pc = "upload_marker"
    /\ \E ok \in BOOLEAN :
        /\ published' = <<[kind |-> "instrumental", plain |-> <<>>, synced |-> <<>>,
                           source |-> "marker", ok |-> ok]>>
        /\ nPublish' = [nPublish EXCEPT ![idx] = @ + 1]
        /\ IF ok THEN Enter("move") ELSE Return("skipped")
    /\ UNCHANGED <<config, choice, idx, nRelocate, site, cached, external, use_ext,
                   candidates, lrc_path, parsed, calls, moveVars, fnVars>>

\* 4./5. parse_lrc_file(lrc_path), the previews, the dry-run return, and outside
\* dry-run write_lrc_file (its result only picks the log line).  read_text_any
\* raises OSError on a file it cannot read; nothing catches it.
ParseLrc ==
    /\ running /\ pc = "parse"
    /\ \/ /\ Leave("crashed")
          /\ calls' = [calls EXCEPT !.parse = @ + 1]
          /\ UNCHANGED parsed
       \/ \E r \in ParseOutcomes :
            /\ parsed' = <<r>>
            /\ IF config.dry_run
               THEN /\ calls' = [calls EXCEPT !.parse = @ + 1]
                    /\ Return("skipped")
               ELSE /\ calls' = [calls EXCEPT !.parse = @ + 1, !.write = @ + 1]
                    /\ IF ~config.auto_yes THEN Enter("confirm") ELSE Enter("upload_local")
    /\ UNCHANGED <<config, choice, idx, nPublish, nRelocate, site, cached, external,
                   use_ext, candidates, lrc_path, published, moveVars, fnVars>>

\* Variant of ConfirmUpload: every answer goes on to the upload.
ConfirmUploadAnyAnswer ==
    /\ running /\ pc = "confirm"
    /\ \E ans \in YesNoInputs :
        /\ choice' = ans
        /\ Enter("upload_local")
    /\ UNCHANGED <<config, idx, nPublish, nRelocate, site, cached, external, use_ext,
                   candidates, lrc_path, parsed, published, calls, moveVars, fnVars>>

\* input("confirm upload? [y/N]"), for the instrumental and the lyrics branch alike.
ConfirmUpload ==
    /\ running /\ pc = "confirm"
    /\ \E ans \in YesNoInputs :
        /\ choice' = ans
        /\ IF IsYes(ans) THEN Enter("upload_local") ELSE Return("skipped")
    /\ UNCHANGED <<config, idx, nPublish, nRelocate, site, cached, external, use_ext,
                   candidates, lrc_path, parsed, published, calls, moveVars, fnVars>>

\* Variant of UploadLocal: the result of the publish call is not looked at.
UploadLocalIgnoringResult ==
    /\ running /\ pc = "upload_local"
    /\ \E ok \in BOOLEAN :
        /\ published' =
              IF TreatAsInstrumental(parsed[1])
              THEN <<[kind |-> "instrumental", plain |-> <<>>, synced |-> <<>>,
                      source |-> "local", ok |-> ok]>>
              ELSE <<[kind |-> "lyrics", plain |-> parsed[1].plain,
                      synced |-> parsed[1].synced,
                      source |-> "local", ok |-> ok]>>
        /\ nPublish' = [nPublish EXCEPT ![idx] = @ + 1]
        /\ Enter("move")
    /\ UNCHANGED <<config, choice, idx, nRelocate, site, cached, external, use_ext,
                   candidates, lrc_path, parsed, calls, moveVars, fnVars>>

\* upload_instrumental or upload_lyrics with the parsed content.
UploadLocal ==
    /\ running /\ pc = "upload_local"
    /\ \E ok \in BOOLEAN :
        /\ published' =
              IF TreatAsInstrumental(parsed[1])
              THEN <<[kind |-> "instrumental", plain |-> <<>>, synced |-> <<>>,
                      source |-> "local", ok |-> ok]>>
              ELSE <<[kind |-> "lyrics", plain |-> parsed[1].plain,
                      synced |-> parsed[1].synced,
                      source |-> "local", ok |-> ok]>>
        /\ nPublish' = [nPublish EXCEPT ![idx] = @ + 1]
        /\ IF ok THEN Enter("move") ELSE Return("skipped")
    /\ UNCHANGED <<config, choice, idx, nRelocate, site, cached, external, use_ext,
                   candidates, lrc_path, parsed, calls, moveVars, fnVars>>

\* meta.path, the audio file of the track in progress, under tracks_dir.
TrackFile == Path("tracks", <<"t">>, ".mp3")

\* lrc_path when it is not None: the lyric file resolved for the track.
LrcFileOf(l) == Path("lrc", <<l>>, ".lrc")

\* The files of the track when _move_after_done starts: the audio file that was
\* read for its tags and, if one was resolved, the lyric file.
RelocFiles(l) == {TrackFile} \cup (IF l = None THEN {} ELSE {LrcFileOf(l)})

\* AppConfig.from_env_and_defaults: the directories of the run.  A done
\* directory that is given neither by argument nor by environment (<<>>) gets
\* the input directory as a placeholder, and keep_in_place is set when neither
\* is given.
FromEnvAndDefaults(tracks_dir, lrc_dir, done_tracks_dir, done_lrc_dir, pair, match) ==
    [tracks_dir |-> tracks_dir, lrc_dir |-> lrc_dir,
     done_tracks_dir |-> IF done_tracks_dir # <<>> THEN done_tracks_dir[1] ELSE tracks_dir,
     done_lrc_dir |-> IF done_lrc_dir # <<>> THEN done_lrc_dir[1] ELSE lrc_dir,
     pair_lrc_with_track_dir |-> pair, match_mode |-> match,
     keep_in_place |-> done_tracks_dir = <<>> /\ done_lrc_dir = <<>>]

\* The AppConfig of a batch whose four directories are all given.
BatchConfig(c) ==
    FromEnvAndDefaults("tracks", "lrc", <<"done_tracks">>, <<"done_lrc">>,
                       c.pair_lrc_with_track_dir, c.match_mode)

\* Variant of CleanupRoots: no mode cleans up.
CleanupRootsNone(cfg) == <<>>

\* Variant of CleanupRoots: the pair mode cleans up as well.
CleanupRootsAlways(cfg) == <<cfg.tracks_dir, cfg.lrc_dir>>

\* The roots cleanup_empty_dirs is called on, in call order: none in pair
\* mode (it returns before), tracks_dir then lrc_dir in the other two.
CleanupRoots(cfg) ==
    IF cfg.pair_lrc_with_track_dir THEN <<>> ELSE <<cfg.tracks_dir, cfg.lrc_dir>>

\* Variant of MatchNewName: the lyric file keeps its own stem.
MatchNewNameOwn(new_mp3, lrc) == lrc.stem

\* match mode: mp3_basename = new_mp3.stem
MatchNewName(new_mp3, lrc) == new_mp3.stem

\* _move_after_done(config, meta, lrc_path) on file system f: the moves, each
\* made on the file system the previous ones left, and the roots
\* cleanup_empty_dirs is then called on.  track is meta.path; lrc_file is
\* lrc_path, <<>> for None.
\*   pair  : the lyric file to the track's directory under the track's stem
\*   match : the audio file, then the lyric file under new_mp3.stem if new_mp3
\*   plain : the lyric file to done_lrc_dir, then the audio file to done_tracks_dir
MoveAfterDoneOn(f, cfg, track, lrc_file, fail1, fail2) ==
    LET lrc == IF lrc_file = <<>> THEN track ELSE lrc_file[1]
        has_lrc(g) == lrc_file # <<>> /\ Exists(g, lrc)
        call(g, src, dst_dir, new_name, fail) ==
            [fs |-> MoveWithDedup(g, src, dst_dir, new_name, fail).fs,
             mv |-> <<MoveRecord(g, src, dst_dir, new_name, fail)>>]
        skip(g) == [fs |-> g, mv |-> <<>>]
    IN  IF cfg.pair_lrc_with_track_dir
        THEN LET c1 == IF has_lrc(f)
                       THEN call(f, lrc, track.dir, track.stem, fail1)
                       ELSE skip(f)
             IN  [fs |-> c1.fs, mv |-> c1.mv, cleanups |-> CleanupRoots(cfg)]
        ELSE IF cfg.match_mode
             THEN LET c1 == IF Exists(f, track)
                            THEN call(f, track, cfg.done_tracks_dir, <<>>, fail1)
                            ELSE skip(f)
                      new_mp3 == IF c1.mv = <<>> THEN <<>> ELSE c1.mv[1].ret
                      c2 == IF has_lrc(c1.fs) /\ new_mp3 # <<>>
                            THEN call(c1.fs, lrc, cfg.done_tracks_dir,
                                      MatchNewName(new_mp3[1], lrc), fail2)
                            ELSE skip(c1.fs)
                  IN  [fs |-> c2.fs, mv |-> c1.mv \o c2.mv,
                       cleanups |-> CleanupRoots(cfg)]
             ELSE LET c1 == IF has_lrc(f)
                            THEN call(f, lrc, cfg.done_lrc_dir, <<>>, fail1)
                            ELSE skip(f)
                      c2 == IF Exists(c1.fs, track)
                            THEN call(c1.fs, track, cfg.done_tracks_dir, <<>>, fail2)
                            ELSE skip(c1.fs)
                  IN  [fs |-> c2.fs, mv |-> c1.mv \o c2.mv,
                       cleanups |-> CleanupRoots(cfg)]

\* Some move_with_dedup call of the track in progress returned None.
MoveFailed == \E i \in 1..Len(mv) : mv[i].ret = <<>>

\* The effect of _move_after_done on the files found when it starts.
Relocate ==
    /\ \E fail1 \in MoveFails, fail2 \in MoveFails :
        LET r == MoveAfterDoneOn({FileOf(q) : q \in RelocFiles(lrc_path)},
                                 BatchConfig(config), TrackFile,
                                 IF lrc_path = None THEN <<>> ELSE <<LrcFileOf(lrc_path)>>,
                                 fail1, fail2)
        IN  /\ \A i \in 1..Len(r.mv) : CanFail(r.mv[i].before, r.mv[i].dst_dir, r.mv[i].fail)
            /\ fs' = r.fs
            /\ mv' = r.mv
            /\ calls' = [calls EXCEPT !.move_with_dedup = @ + Len(r.mv),
                                       !.cleanup = @ + Len(r.cleanups)]
    /\ nRelocate' = [nRelocate EXCEPT ![idx] = @ + 1]

\* Variant of MoveAfterDone: a move that fails raises out of process_track.
MoveAfterDoneRaising ==
    /\ running /\ pc = "move"
    /\ Relocate
    /\ IF MoveFailed' THEN Leave("crashed") ELSE Return("done")
    /\ UNCHANGED <<config, choice, idx, nPublish, site, cached, external, use_ext,
                   candidates, lrc_path, parsed, published, fnVars>>

\* _move_after_done(config, meta, lrc_path), then process_track returns.
MoveAfterDone ==
    /\ running /\ pc = "move"
    /\ Relocate
    /\ Return("done")
    /\ UNCHANGED <<config, choice, idx, nPublish, site, cached, external, use_ext,
                   candidates, lrc_path, parsed, published, fnVars>>

(***************************************************************************)
(* process_all's loop and the ways the batch ends.                         *)
(***************************************************************************)
\* for meta in metas: process_track(...)  -- the next iteration, or the end.
LoopNext ==
    /\ running /\ pc = "returned"
    /\ IF idx < MaxTracks
       THEN /\ idx' = idx + 1
            /\ outcome' = [outcome EXCEPT ![idx + 1] = "running"]
            /\ pc' = "get_cached"
            /\ batch' = batch
       ELSE /\ batch' = "finished"
            /\ pc' = "exit"
            /\ UNCHANGED <<idx, outcome>>
    /\ site' = None
    /\ cached' = "unset"
    /\ external' = <<>>
    /\ use_ext' = FALSE
    /\ choice' = None
    /\ candidates' = <<>>
    /\ lrc_path' = None
    /\ parsed' = <<>>
    /\ published' = <<>>
    /\ calls' = NoCalls
    /\ asked' = {}
    /\ fs' = {}
    /\ mv' = <<>>
    /\ UNCHANGED <<config, nPublish, nRelocate, fnVars>>

\* KeyboardInterrupt while a track is in progress: run_cli catches it and exits.
Interrupt ==
    /\ running /\ pc \notin {"returned", "exit"}
    /\ Leave("interrupted")
    /\ UNCHANGED <<config, choice, idx, nPublish, nRelocate, site, cached, external,
                   use_ext, candidates, lrc_path, parsed, published, calls, moveVars, fnVars>>

NextProc ==
    \/ GetCached \/ GetExternal \/ AskUseExt \/ UploadExt
    \/ FindLrc \/ ChooseLrc
    \/ AskMissing \/ AskPath \/ ConfirmSuffix \/ UploadMarker
    \/ ParseLrc \/ ConfirmUpload \/ UploadLocal
    \/ MoveAfterDone \/ LoopNext \/ Interrupt

Init ==
    /\ InitProc
    /\ fs = {}
    /\ mv = <<>>
    /\ fn = <<>>

Next == NextProc

Spec == Init /\ [][Next]_vars

\* The steps process_track and process_all take by themselves: a remote call,
\* a file-system call or the loop, each of which returns.
Proceed ==
    \/ GetCached \/ GetExternal \/ UploadExt \/ FindLrc \/ UploadMarker
    \/ ParseLrc \/ UploadLocal \/ MoveAfterDone \/ LoopNext

\* An answer of the operator that is not asked for again at the same prompt.
Answer ==
    /\ AskUseExt \/ ChooseLrc \/ AskMissing \/ AskPath \/ ConfirmSuffix \/ ConfirmUpload
    /\ pc' \notin {"choose", "ask_missing", "ask_path", "confirm_suffix"}

\* The calls return, and the operator at a prompt eventually gives an answer
\* the prompt accepts.
SpecLive == Spec /\ WF_vars(Proceed) /\ SF_vars(Answer)

InitMove ==
    /\ InitProc
    /\ config = RunCliConfig([yes |-> FALSE, dry_run |-> FALSE,
                              default |-> FALSE, match |-> FALSE])
    /\ \E S \in SUBSET InitPaths : fs = {FileOf(p) : p \in S}
    /\ mv = <<>>
    /\ fn = <<>>

\* One call of move_with_dedup; src may be a path where nothing exists.
MoveCall ==
    /\ mv = <<>>
    /\ \E src \in {e.path : e \in fs} \cup {Path("in", <<"a">>, ".lrc")},
          dst_dir \in Dirs, new_name \in NewNames, fail \in MoveFails :
        /\ CanFail(fs, dst_dir, fail)
        /\ fs' = MoveWithDedup(fs, src, dst_dir, new_name, fail).fs
        /\ mv' = <<MoveRecord(fs, src, dst_dir, new_name, fail)>>
    /\ UNCHANGED <<procVars, fnVars>>

\* The same call once more: same src, dst_dir and new_name on the file system as it is now.
MoveRepeat ==
    /\ mv # <<>> /\ Len(mv) < MaxCalls
    /\ \E fail \in MoveFails :
        LET m == mv[1] IN
        /\ CanFail(fs, m.dst_dir, fail)
        /\ fs' = MoveWithDedup(fs, m.src, m.dst_dir, m.new_name, fail).fs
        /\ mv' = Append(mv, MoveRecord(fs, m.src, m.dst_dir, m.new_name, fail))
    /\ UNCHANGED <<procVars, fnVars>>

NextMove == MoveCall \/ MoveRepeat

SpecMove == InitMove /\ [][NextMove]_vars

(***************************************************************************)
(* split_artists, character by character.                                  *)
(***************************************************************************)
\* s[i..] starts with pat
StartsAt(t, i, pat) ==
    /\ i + Len(pat) - 1 <= Len(t)
    /\ \A k \in 1..Len(pat) : t[i + k - 1] = pat[k]

\* str.replace(pat, rep): the non-overlapping occurrences, left to right
RECURSIVE ReplaceFrom(_, _, _, _)
ReplaceFrom(t, i, pat, by) ==
    IF i > Len(t) THEN <<>>
    ELSE IF StartsAt(t, i, pat)
         THEN by \o ReplaceFrom(t, i + Len(pat), pat, by)
         ELSE <<t[i]>> \o ReplaceFrom(t, i + 1, pat, by)

Replace(t, pat, by) == ReplaceFrom(t, 1, pat, by)

\* str.lower() of a unit
LowerOf(u) ==
    CASE u = "A" -> "a" [] u = "B" -> "b" [] u = "C" -> "c" [] u = "F" -> "f"
      [] u = "X" -> "x" [] u = "U+00C4" -> "U+00E4" [] OTHER -> u

Lower(t) == [i \in 1..Len(t) |-> LowerOf(t[i])]

\* \w of the re module
IsWord(u) == u \in {"a", "b", "c", "d", "e", "f", "g", "i", "n", "r", "t", "u", "x",
                    "A", "B", "C", "F", "X", "U+548C"}

\* \b between t[i] and t[i + 1]
Boundary(t, i) ==
    LET left == i >= 1 /\ i <= Len(t) /\ IsWord(t[i])
        right == i + 1 >= 1 /\ i + 1 <= Len(t) /\ IsWord(t[i + 1])
    IN  left # right

\* Length of the match of \b<word>\.?\b (dot) or \b<word>\b at position i, 0 if none.
\* The optional dot is greedy: taken if a \b follows it, given up otherwise.
MarkerAt(t, i, word, dot) ==
    LET n == Len(word) IN
    IF ~(Boundary(t, i - 1) /\ StartsAt(t, i, word)) THEN 0
    ELSE IF dot /\ StartsAt(t, i + n, <<".">>) /\ Boundary(t, i + n) THEN n + 1
    ELSE IF Boundary(t, i + n - 1) THEN n
    ELSE 0

RECURSIVE SubMarkerFrom(_, _, _, _)
SubMarkerFrom(t, i, word, dot) ==
    IF i > Len(t) THEN <<>>
    ELSE IF MarkerAt(t, i, word, dot) > 0
         THEN <<",">> \o SubMarkerFrom(t, i + MarkerAt(t, i, word, dot), word, dot)
         ELSE <<t[i]>> \o SubMarkerFrom(t, i + 1, word, dot)

\* re.sub(r"\b<word>\.?\b", ",", t) / re.sub(r"\b<word>\b", ",", t)
SubMarker(t, word, dot) == SubMarkerFrom(t, 1, word, dot)

\* The separators replaced by a comma, in the order of the two loops.
ArtistSeparators ==
    << <<"&">>, <<"U+548C">>, <<"/">>, <<";">>, <<"U+3001">>, <<" ", "x", " ">>,
       <<" ", "X", " ">>, <<"U+00D7">>, <<"U+FF0C">>, <<"U+FF64">> >>

RECURSIVE ReplaceAll(_, _, _)
ReplaceAll(t, pats, by) ==
    IF pats = <<>> THEN t ELSE ReplaceAll(Replace(t, Head(pats), by), Tail(pats), by)

\* str.split(",")
RECURSIVE SplitComma(_)
SplitComma(t) ==
    IF \E i \in 1..Len(t) : t[i] = ","
    THEN LET i == CHOOSE j \in 1..Len(t) : t[j] = "," /\ \A k \in 1..(j - 1) : t[k] # ","
         IN  <<SubSeq(t, 1, i - 1)>> \o SplitComma(SubSeq(t, i + 1, Len(t)))
    ELSE <<t>>

\* list(dict.fromkeys(xs)): first occurrences, in order
RECURSIVE Unique(_)
Unique(xs) ==
    IF xs = <<>> THEN <<>>
    ELSE LET init == Unique(SubSeq(xs, 1, Len(xs) - 1))
             last == xs[Len(xs)]
         IN  IF \E i \in 1..Len(init) : init[i] = last THEN init ELSE Append(init, last)

RECURSIVE StripNonEmpty(_)
StripNonEmpty(xs) ==
    IF xs = <<>> THEN <<>>
    ELSE (IF Strip(Head(xs)) # <<>> THEN <<Strip(Head(xs))>> ELSE <<>>)
            \o StripNonEmpty(Tail(xs))

split_artists(t) ==
    LET s1 == Lower(t)
        s2 == SubMarker(s1, <<"f", "e", "a", "t">>, TRUE)
        s3 == SubMarker(s2, <<"f", "e", "a", "t", "u", "r", "i", "n", "g">>, FALSE)
        s4 == ReplaceAll(s3, ArtistSeparators, <<",">>)
    IN  Unique(StripNonEmpty(SplitComma(s4)))

\* Artist names and the ways an artist string joins them.
ArtistNames == {<<"A">>, <<"b">>, <<"C", " ", "d">>}

FeatMarkers ==
    { <<" ", "f", "e", "a", "t", ".", " ">>, <<" ", "F", "e", "a", "t", ".", " ">>,
      <<" ", "f", "e", "a", "t", " ">>,
      <<" ", "f", "e", "a", "t", "u", "r", "i", "n", "g", " ">> }

ArtistJoins ==
    FeatMarkers \cup
    { <<" ", "&", " ">>, <<"U+548C">>, <<"/">>, <<";", " ">>, <<"U+3001">>,
      <<" ", "x", " ">>, <<" ", "X", " ">>, <<"U+00D7">>, <<"U+FF0C">>, <<"U+FF64">>,
      <<",", " ">> }

\* An artist string of three names: names[1] joins[1] names[2] joins[2] names[3].
ArtistInputs == [names : [1..3 -> ArtistNames], joins : [1..2 -> ArtistJoins]]

ArtistText(a) ==
    a.names[1] \o a.joins[1] \o a.names[2] \o a.joins[2] \o a.names[3]

\* No process_track running, no move made: the state around a function on its own.
InitIdle ==
    /\ InitProc
    /\ config = RunCliConfig([yes |-> FALSE, dry_run |-> FALSE,
                              default |-> FALSE, match |-> FALSE])
    /\ fs = {}
    /\ mv = <<>>

InitArtists ==
    /\ InitIdle
    /\ \E a \in ArtistInputs :
        fn = [op |-> "split_artists", arg |-> a, ret |-> <<>>, done |-> FALSE]

SplitArtistsCall ==
    /\ fn.op = "split_artists" /\ ~fn.done
    /\ fn' = [fn EXCEPT !.ret = split_artists(ArtistText(fn.arg)), !.done = TRUE]
    /\ UNCHANGED <<procVars, moveVars>>

NextArtists == SplitArtistsCall

SpecArtists == InitArtists /\ [][NextArtists]_vars

(***************************************************************************)
(* normalize_name, character by character, over the characters            *)
(*   a  A                 a letter and its capital                         *)
(*   U+1D2C               MODIFIER LETTER CAPITAL A: no lowercase,         *)
(*                        compatibility-equivalent to A                    *)
(*   U+00E4  U+00C4       a and A with diaeresis                           *)
(*   U+0308               COMBINING DIAERESIS                              *)
(*   U+0435  U+0451       Cyrillic ie and io (ie with diaeresis)           *)
(*   " "  "\t"  U+3000    space, tab (a control), ideographic space        *)
(*   U+200B               ZERO WIDTH SPACE (a format character)            *)
(*   U+3010  [            a full-width bracket and its replacement         *)
(***************************************************************************)
\* Compatibility decomposition of one character.
Decompose(u) ==
    CASE u = "U+1D2C" -> <<"A">>
      [] u = "U+00E4" -> <<"a", "U+0308">>
      [] u = "U+00C4" -> <<"A", "U+0308">>
      [] u = "U+0451" -> <<"U+0435", "U+0308">>
      [] u = "U+3000" -> <<" ">>
      [] OTHER -> <<u>>

RECURSIVE DecomposeAll(_)
DecomposeAll(t) == IF t = <<>> THEN <<>> ELSE Decompose(Head(t)) \o DecomposeAll(Tail(t))

\* The precomposed character of a base and a diaeresis, "" if there is none.
Composite(base) ==
    CASE base = "a" -> "U+00E4"
      [] base = "A" -> "U+00C4"
      [] base = "U+0435" -> "U+0451"
      [] OTHER -> ""

\* Canonical composition: a diaeresis joins the character before it if it can.
RECURSIVE ComposeAll(_)
ComposeAll(t) ==
    IF t = <<>> THEN <<>>
    ELSE LET init == ComposeAll(SubSeq(t, 1, Len(t) - 1))
             last == t[Len(t)]
         IN  IF last = "U+0308" /\ init # <<>> /\ Composite(init[Len(init)]) # ""
             THEN SubSeq(init, 1, Len(init) - 1) \o <<Composite(init[Len(init)])>>
             ELSE Append(init, last)

\* unicodedata.normalize('NFKC', s)
NFKC(t) == ComposeAll(DecomposeAll(t))

\* cyrillic_map and replacements, applied with str.replace
MapChars(t) ==
    Replace(Replace(t, <<"U+0451">>, <<"U+0435">>), <<"U+3010">>, <<"[">>)

\* unicodedata.category(ch)[0] in ('C', 'Z')
IsControlOrSeparator(u) == u \in {"\t", "\n", "U+200B", " ", "U+3000"}

\* ''.join(ch for ch in s if category(ch)[0] not in ('C', 'Z') or ch == ' ')
RECURSIVE DropControls(_)
DropControls(t) ==
    IF t = <<>> THEN <<>>
    ELSE (IF ~IsControlOrSeparator(Head(t)) \/ Head(t) = " " THEN <<Head(t)>> ELSE <<>>)
            \o DropControls(Tail(t))

\* re.sub(r"\s+", " ", s)
RECURSIVE CollapseSpaces(_)
CollapseSpaces(t) ==
    IF t = <<>> THEN <<>>
    ELSE IF IsSpace(Head(t))
         THEN <<" ">> \o CollapseSpaces(LStrip(t))
         ELSE <<Head(t)>> \o CollapseSpaces(Tail(t))

normalize_name(t) ==
    Strip(CollapseSpaces(DropControls(MapChars(NFKC(Lower(Strip(t)))))))

NameChars == {"a", "A", "U+1D2C", "U+0308", "U+0451", " ", "\t", "U+3000", "U+200B",
              "U+3010"}

RECURSIVE Texts(_, _)
Texts(chars, n) ==
    IF n = 0 THEN {<<>>}
    ELSE Texts(chars, n - 1)
            \cup {Append(t, c) : t \in {x \in Texts(chars, n - 1) : Len(x) = n - 1},
                                 c \in chars}

NameInputs == Texts(NameChars, MaxNameLen)

InitNormalize ==
    /\ InitIdle
    /\ \E t \in NameInputs :
        fn = [op |-> "normalize_name", arg |-> t, ret |-> <<>>, done |-> FALSE]

\* normalize_name(s), then normalize_name of what it returned.
NormalizeCall ==
    /\ fn.op = "normalize_name" /\ ~fn.done
    /\ fn' = [fn EXCEPT
                !.ret = Append(@, normalize_name(IF @ = <<>> THEN fn.arg ELSE @[Len(@)])),
                !.done = Len(fn.ret) = 1]
    /\ UNCHANGED <<procVars, moveVars>>

NextNormalize == NormalizeCall

SpecNormalize == InitNormalize /\ [][NextNormalize]_vars

(***************************************************************************)
(* find_lrc_for_track on its own: a track, the lyric files in the order    *)
(* rglob yields them, and the interactive flag.                            *)
(***************************************************************************)
\* First position where pat occurs in t, 0 if nowhere.
IndexOf(t, pat) ==
    IF \E i \in 1..Len(t) : StartsAt(t, i, pat)
    THEN CHOOSE i \in 1..Len(t) :
            StartsAt(t, i, pat) /\ \A k \in 1..(i - 1) : ~StartsAt(t, k, pat)
    ELSE 0

Dash == <<" ", "-", " ">>

\* parse_lrc_filename(path), from path.stem
parse_lrc_filename(stem) ==
    LET i == IndexOf(stem, Dash) IN
    IF i = 0
    THEN [artists |-> <<>>, title |-> <<>>]
    ELSE [artists |-> split_artists(SubSeq(stem, 1, i - 1)),
          title |-> normalize_name(SubSeq(stem, i + Len(Dash), Len(stem)))]

NormSet(xs) == {normalize_name(xs[i]) : i \in 1..Len(xs)}

\* Variant of match_artists: every artist of the track must be among the file's.
match_artists_subset(mp3_artists, lrc_artists) ==
    NormSet(mp3_artists) \subseteq NormSet(lrc_artists)

match_artists(mp3_artists, lrc_artists) ==
    NormSet(mp3_artists) \cap NormSet(lrc_artists) # {}

\* The loop over rglob("*.lrc"): the files kept as candidates, in the order met.
RECURSIVE Candidates(_, _, _)
Candidates(listing, meta_title_norm, meta_artists) ==
    IF listing = <<>> THEN <<>>
    ELSE LET p == parse_lrc_filename(Head(listing))
             keep == /\ Truthy(p.title)
                     /\ p.title = meta_title_norm
                     /\ match_artists(meta_artists, p.artists)
         IN  (IF keep THEN <<Head(listing)>> ELSE <<>>)
                \o Candidates(Tail(listing), meta_title_norm, meta_artists)

\* Code points in increasing order, for comparing paths.
CharOrder == <<" ", "&", "-", ".", "/", "A", "a", "b", "c">>

CharRank(u) == CHOOSE i \in 1..Len(CharOrder) : CharOrder[i] = u

\* s < t for two strings
RECURSIVE LexLess(_, _)
LexLess(x, y) ==
    IF y = <<>> THEN FALSE
    ELSE IF x = <<>> THEN TRUE
    ELSE IF Head(x) # Head(y) THEN CharRank(Head(x)) < CharRank(Head(y))
    ELSE LexLess(Tail(x), Tail(y))

\* The path of a lyric file below lrc_dir, as a string.
LrcName(stem) == stem \o <<".">>

\* Variant of FirstCandidate: the candidate whose path sorts first.
LexFirstCandidate(cands) ==
    CHOOSE c \in {cands[i] : i \in 1..Len(cands)} :
        \A i \in 1..Len(cands) : cands[i] = c \/ LexLess(LrcName(c), LrcName(cands[i]))

\* candidates[0]
FirstCandidate(cands) == cands[1]

\* Tags of the track: a title (one is blank) and an artist string.
MetaTitles == {<<"A">>, <<"b">>, <<" ">>}
MetaArtists == {<<"A">>, <<"A", " ", "&", " ", "b">>, <<"c">>}

\* Lyric file stems: "Artist - Title" names, and one name without " - ".
LrcStems ==
    {ar \o Dash \o ti : ar \in {<<"a">>, <<"b", "/", "c">>, <<"c">>},
                        ti \in {<<"a">>, <<" ">>}}
        \cup {<<"a">>}

\* The sequences of up to n distinct elements of S.
RECURSIVE Listings(_, _)
Listings(S, n) ==
    IF n = 0 THEN {<<>>}
    ELSE Listings(S, n - 1)
            \cup UNION { {Append(l, x) : x \in S \ {l[i] : i \in 1..Len(l)}} :
                            l \in {y \in Listings(S, n - 1) : Len(y) = n - 1} }

FindInputs ==
    [title : MetaTitles, artist : MetaArtists, listing : Listings(LrcStems, MaxFiles),
     interactive : BOOLEAN]

InitFind ==
    /\ InitIdle
    /\ \E a \in FindInputs :
        fn = [op |-> "find_lrc_for_track", arg |-> a, cands |-> <<>>, ret |-> <<>>,
              at |-> "call", done |-> FALSE]

\* find_lrc_for_track up to its return or its prompt; ret is <<>> for None.
FindCall ==
    /\ fn.op = "find_lrc_for_track" /\ fn.at = "call"
    /\ LET cands == Candidates(fn.arg.listing, normalize_name(fn.arg.title),
                               split_artists(fn.arg.artist))
       IN  fn' = IF cands = <<>>
                 THEN [fn EXCEPT !.at = "returned", !.done = TRUE]
                 ELSE IF Len(cands) = 1 \/ ~fn.arg.interactive
                      THEN [fn EXCEPT !.cands = cands, !.ret = <<FirstCandidate(cands)>>,
                                      !.at = "returned", !.done = TRUE]
                      ELSE [fn EXCEPT !.cands = cands, !.at = "prompt"]
    /\ UNCHANGED <<procVars, moveVars>>

\* The prompt loop: a number in 1..len(candidates) returns, digits int() rejects
\* raise ValueError out of the function, anything else asks again.
FindChoose ==
    /\ fn.op = "find_lrc_for_track" /\ fn.at = "prompt"
    /\ \E a \in SelectionInputs(Len(fn.cands)) :
        fn' = CASE Selection(a, Len(fn.cands)) = "return" ->
                    [fn EXCEPT !.ret = <<fn.cands[a.int[1]]>>, !.at = "returned",
                               !.done = TRUE]
                [] Selection(a, Len(fn.cands)) = "raise" -> [fn EXCEPT !.at = "raised"]
                [] OTHER -> fn
    /\ UNCHANGED <<procVars, moveVars>>

NextFind == FindCall \/ FindChoose

SpecFind == InitFind /\ [][NextFind]_vars

(***************************************************************************)
(* parse_lrc_file, line by line.  A line is a sequence of tokens:          *)
(*   [00:01.00] [00:02.00]  standard timestamps                            *)
(*   [00:01]                a timestamp of the extended form only          *)
(*   [ar:x]                 a bracket group of the header shape            *)
(*   la                     text without CJK characters                    *)
(*   U+4F60                 text of CJK characters                         *)
(*   U+4F5C.U+8BCD          a credit keyword (CJK characters)              *)
(*   :                      a colon (half- or full-width)                  *)
(*   U+7EAF..U+8D4F         an instrumental-marker phrase (CJK characters) *)
(*   " "                    a space                                        *)
(***************************************************************************)
StdStamps == {"[00:01.00]", "[00:02.00]"}
ExtStamps == StdStamps \cup {"[00:01]"}
HeaderGroups == {"[ar:x]"}
CreditKeywords == {"U+4F5C.U+8BCD"}
PureMusicPhrases == {"U+7EAF..U+8D4F"}
CjkTokens == {"U+4F60"} \cup CreditKeywords \cup PureMusicPhrases

\* Variant of StartsContent: the extended form starts the content as well.
StartsContentExtended(t) == t # <<>> /\ t[1] \in ExtStamps

\* TIMESTAMP_RE.match(s)
StartsContent(t) == t # <<>> /\ t[1] \in StdStamps

\* EXTENDED_TIMESTAMP_RE.match(s)
HasStamp(t) == t # <<>> /\ t[1] \in ExtStamps

\* HEADER_TAG_RE.match(s): "[xx:" at the start, "]" at the end, something between
IsHeaderTag(t) ==
    t # <<>> /\ t[1] \in HeaderGroups /\ t[Len(t)] \in HeaderGroups \cup ExtStamps

\* Variant of HasPureMusic: no text is taken for an instrumental marker.
HasPureMusicNever(t) == FALSE

\* any(p in text_no_tag for p in PURE_MUSIC_PHRASES)
HasPureMusic(t) == \E i \in 1..Len(t) : t[i] \in PureMusicPhrases

\* Variant of IsCredit: no line is taken for a credit line.
IsCreditNever(t) == FALSE

\* CREDIT_RE.match(text_no_tag): keyword, \s*, colon, \s*, and at least one character
IsCredit(t) ==
    /\ t # <<>> /\ t[1] \in CreditKeywords
    /\ LET rest == LStrip(Tail(t)) IN
        /\ rest # <<>> /\ rest[1] = ":"
        /\ Tail(rest) # <<>>

\* _contains_cjk(text)
ContainsCjk(t) == \E i \in 1..Len(t) : t[i] \in CjkTokens

\* Variant of IsTranslation: remove_translations is not looked at.
IsTranslationAlways(remove_translations, prev_timestamp, current_timestamp, text) ==
    prev_timestamp = current_timestamp /\ ContainsCjk(text)

\* remove_translations and prev_timestamp == current_timestamp and _contains_cjk(...)
IsTranslation(remove_translations, prev_timestamp, current_timestamp, text) ==
    remove_translations /\ prev_timestamp = current_timestamp /\ ContainsCjk(text)

\* Variant of KeepHeader: the header line goes to the plain lines as well.
KeepHeaderInPlain(st, i, line) ==
    [st EXCEPT !.synced_lines = Append(@, [src |-> i, text |-> line]),
               !.plain_lines = Append(@, [src |-> i, text |-> Strip(line)]),
               !.prev_timestamp = None]

\* A header-tag line after the start: synced_lines.append(line)
KeepHeader(st, i, line) ==
    [st EXCEPT !.synced_lines = Append(@, [src |-> i, text |-> line]),
               !.prev_timestamp = None]

\* Variant of KeepBlank: the blank line leaves prev_timestamp as it is.
KeepBlankAndStamp(st, i) ==
    [st EXCEPT !.synced_lines = Append(@, [src |-> i, text |-> <<>>]),
               !.plain_lines = Append(@, [src |-> i, text |-> <<>>])]

\* A blank line after the start: an empty line in both lists, prev_timestamp = None
KeepBlank(st, i) ==
    [st EXCEPT !.synced_lines = Append(@, [src |-> i, text |-> <<>>]),
               !.plain_lines = Append(@, [src |-> i, text |-> <<>>]),
               !.prev_timestamp = None]

\* The state of the loop before the first line.  An output line is recorded with
\* the number of the input line it comes from.
ParseStart ==
    [started |-> FALSE, prev_timestamp |-> None, synced_lines |-> <<>>,
     plain_lines |-> <<>>, is_instrumental |-> FALSE]

\* One iteration of `for line in raw.splitlines()`, for line number i.
ParseLine(st, i, line, remove_translations) ==
    LET t == Strip(line)
        text_no_tag == Strip(Tail(t))
        st1 == [st EXCEPT !.started = TRUE]
        kept(x, plain) ==
            [x EXCEPT !.synced_lines = Append(@, [src |-> i, text |-> line]),
                      !.plain_lines = @ \o plain]
    IN  IF ~st.started /\ ~StartsContent(t) THEN st
        ELSE IF t = <<>> THEN KeepBlank(st1, i)
        ELSE IF IsHeaderTag(t) THEN KeepHeader(st1, i, line)
        ELSE IF HasStamp(t)
             THEN IF text_no_tag # <<>> /\ HasPureMusic(text_no_tag)
                  THEN [st1 EXCEPT !.is_instrumental = TRUE, !.prev_timestamp = None]
                  ELSE IF text_no_tag # <<>> /\ IsCredit(text_no_tag)
                  THEN [st1 EXCEPT !.prev_timestamp = None]
                  ELSE IF IsTranslation(remove_translations, st1.prev_timestamp,
                                        t[1], text_no_tag)
                  THEN st1
                  ELSE [kept(st1, <<[src |-> i, text |-> text_no_tag]>>)
                           EXCEPT !.prev_timestamp = t[1]]
        ELSE [kept(st1, <<[src |-> i, text |-> t]>>) EXCEPT !.prev_timestamp = None]

RECURSIVE ParseLines(_, _, _)
ParseLines(lines, n, remove_translations) ==
    IF n = 0 THEN ParseStart
    ELSE ParseLine(ParseLines(lines, n - 1, remove_translations), n, lines[n],
                   remove_translations)

\* while plain_lines and not plain_lines[0]: pop(0); the same at the end
RECURSIVE TrimBlank(_)
TrimBlank(ls) ==
    IF ls # <<>> /\ ls[1].text = <<>> THEN TrimBlank(Tail(ls))
    ELSE IF ls # <<>> /\ ls[Len(ls)].text = <<>> THEN TrimBlank(SubSeq(ls, 1, Len(ls) - 1))
    ELSE ls

\* Variant of parse_lrc_file: the flag is also set when both outputs are empty.
parse_lrc_file_derived(lines, remove_translations) ==
    LET st == ParseLines(lines, Len(lines), remove_translations) IN
    [synced |-> st.synced_lines, plain |-> TrimBlank(st.plain_lines),
     is_instrumental |-> st.is_instrumental
                            \/ (Len(st.synced_lines) = 0
                                  /\ Len(TrimBlank(st.plain_lines)) = 0)]

\* parse_lrc_file on the lines of the file; synced and plain as lists of lines.
parse_lrc_file(lines, remove_translations) ==
    LET st == ParseLines(lines, Len(lines), remove_translations) IN
    [synced |-> st.synced_lines, plain |-> TrimBlank(st.plain_lines),
     is_instrumental |-> st.is_instrumental]

\* The lines a lyric file is made of.
LrcLines ==
    { <<"[00:01.00]", "la">>, <<"[00:01.00]", "U+4F60">>, <<"[00:02.00]", "U+4F60">>,
      <<"[00:01.00]">>, <<"[00:01]", "la">>,
      <<"[ar:x]">>, <<" ", "[ar:x]">>,
      <<"[00:01.00]", "U+4F5C.U+8BCD", ":", "la">>, <<"U+4F5C.U+8BCD", ":", "la">>,
      <<"[00:01.00]", "U+7EAF..U+8D4F">>, <<"[00:01]", "U+7EAF..U+8D4F">>,
      <<"la">>, <<>> }

ParseInputs == [lines : Texts(LrcLines, MaxLines), remove_translations : BOOLEAN]

InitParse ==
    /\ InitIdle
    /\ \E a \in ParseInputs :
        fn = [op |-> "parse_lrc_file", arg |-> a, ret |-> <<>>, done |-> FALSE]

ParseCall ==
    /\ fn.op = "parse_lrc_file" /\ ~fn.done
    /\ fn' = [fn EXCEPT
                !.ret = <<parse_lrc_file(fn.arg.lines, fn.arg.remove_translations)>>,
                !.done = TRUE]
    /\ UNCHANGED <<procVars, moveVars>>

NextParse == ParseCall

SpecParse == InitParse /\ [][NextParse]_vars

(***************************************************************************)
(* The lyric file on disk and the normalize-only mode (parse_lrc_mode on   *)
(* one file, run again and again).  A text is the list of the lines that   *)
(* "\n" separates in it; the empty string is the empty list.               *)
(***************************************************************************)
\* "\n".join(lines): one empty line joins to the empty string.
JoinLines(lines) == IF lines = <<<<>>>> THEN <<>> ELSE lines

\* raw.splitlines(): a "\n" at the end of the text does not start a line.
SplitLines(text) ==
    IF text # <<>> /\ text[Len(text)] = <<>>
    THEN SubSeq(text, 1, Len(text) - 1)
    ELSE text

\* The string held by ParsedLRC.synced / ParsedLRC.plain.
JoinedText(ls) == JoinLines([k \in 1..Len(ls) |-> ls[k].text])

\* path.write_text(content) went through, or raised and write_lrc_file
\* returned False (the file as it was, or left truncated by the open).
WriteResults == {"ok", "failed", "truncated"}

\* The text of the file after write_lrc_file(path, content).
write_lrc_file(file, content, result) ==
    CASE result = "ok" -> content
      [] result = "failed" -> file
      [] OTHER -> <<>>

ModeInputs == [lines : Texts(LrcLines, MaxLines)]

InitMode ==
    /\ InitIdle
    /\ \E a \in ModeInputs :
        fn = [op |-> "parse_lrc_mode", arg |-> a, file |-> JoinLines(a.lines),
              runs |-> <<>>]

\* parse_lrc_mode(target) on the file: parse_lrc_file(target), then
\* write_lrc_file(target, parsed.synced).
ParseLrcMode ==
    /\ fn.op = "parse_lrc_mode" /\ Len(fn.runs) < MaxRuns
    /\ \E result \in WriteResults :
        LET r == parse_lrc_file(SplitLines(fn.file), TRUE)
            synced == JoinedText(r.synced)
        IN  fn' = [fn EXCEPT
                    !.file = write_lrc_file(fn.file, synced, result),
                    !.runs = Append(@, [before |-> fn.file, synced |-> synced,
                                        plain |-> JoinedText(r.plain),
                                        is_instrumental |-> r.is_instrumental,
                                        written |-> result = "ok"])]
    /\ UNCHANGED <<procVars, moveVars>>

NextMode == ParseLrcMode

SpecMode == InitMode /\ [][NextMode]_vars

(***************************************************************************)
(* process_track from the parse of the resolved lyric file on (steps 4    *)
(* and 5), with the content of the lyric file.  pc is the position:       *)
(* "parse", "confirm", "upload", "returned", or "exit" after an exception. *)
(***************************************************************************)
\* A text as one string: its lines with "\n" between them.
RECURSIVE Flat(_)
Flat(text) ==
    IF text = <<>> THEN <<>>
    ELSE IF Len(text) = 1 THEN text[1]
    ELSE text[1] \o <<"\n">> \o Flat(Tail(text))

\* Lyric files the flow is run on: empty, a lyric line, a lyric line and its
\* translation, an instrumental marker, a header before and a blank line
\* after a lyric line, a credit line alone.
LocalFiles ==
    { <<>>,
      << <<"[00:01.00]", "la">> >>,
      << <<"[00:01.00]", "la">>, <<"[00:01.00]", "U+4F60">> >>,
      << <<"[00:01.00]", "U+7EAF..U+8D4F">> >>,
      << <<"[ar:x]">>, <<"[00:02.00]", "U+4F60">>, <<>>, <<>> >>,
      << <<"[00:01.00]", "U+4F5C.U+8BCD", ":", "la">> >> }

LocalInputs == [dry_run : BOOLEAN, auto_yes : BOOLEAN, lines : LocalFiles]

\* ParsedLRC: synced and plain as texts.
ParsedLRC(r) ==
    [synced |-> JoinedText(r.synced), plain |-> JoinedText(r.plain),
     is_instrumental |-> r.is_instrumental]

\* Variant of WriteBack: the plain text is written to the file.
WriteBackPlain(file, p, result) == write_lrc_file(file, p.plain, result)

\* write_lrc_file(lrc_path, parsed.synced)
WriteBack(file, p, result) == write_lrc_file(file, p.synced, result)

InitLocal ==
    /\ InitIdle
    /\ \E a \in LocalInputs :
        fn = [op |-> "process_track", arg |-> a, pc |-> "parse",
              file |-> JoinLines(a.lines), ret |-> <<>>, written |-> <<>>,
              asked |-> FALSE, published |-> <<>>, moved |-> FALSE]

\* parse_lrc_file(lrc_path), the dry-run return, write_lrc_file.  A file that
\* cannot be read raises out of process_track.
LocalParse ==
    /\ fn.op = "process_track" /\ fn.pc = "parse"
    /\ \/ fn' = [fn EXCEPT !.pc = "exit"]
       \/ LET p == ParsedLRC(parse_lrc_file(SplitLines(fn.file), TRUE)) IN
          IF fn.arg.dry_run
          THEN fn' = [fn EXCEPT !.ret = <<p>>, !.pc = "returned"]
          ELSE \E result \in WriteResults :
                fn' = [fn EXCEPT
                        !.ret = <<p>>,
                        !.file = WriteBack(fn.file, p, result),
                        !.written = <<result>>,
                        !.asked = ~fn.arg.auto_yes,
                        !.pc = IF fn.arg.auto_yes THEN "upload" ELSE "confirm"]
    /\ UNCHANGED <<procVars, moveVars>>

\* input("confirm ... ? [y/N]") of either upload branch.
LocalConfirm ==
    /\ fn.op = "process_track" /\ fn.pc = "confirm"
    /\ \E ans \in YesNoInputs :
        fn' = [fn EXCEPT !.pc = IF IsYes(ans) THEN "upload" ELSE "returned"]
    /\ UNCHANGED <<procVars, moveVars>>

\* upload_instrumental / upload_lyrics, then _move_after_done if ok.
LocalUpload ==
    /\ fn.op = "process_track" /\ fn.pc = "upload"
    /\ \E ok \in BOOLEAN :
        LET p == fn.ret[1]
            flat == [is_instrumental |-> p.is_instrumental,
                     plain |-> Flat(p.plain), synced |-> Flat(p.synced)]
        IN  fn' = [fn EXCEPT
                    !.published =
                        IF TreatAsInstrumental(flat)
                        THEN <<[kind |-> "instrumental", plain |-> <<>>,
                                synced |-> <<>>, ok |-> ok]>>
                        ELSE <<[kind |-> "lyrics", plain |-> p.plain,
                                synced |-> p.synced, ok |-> ok]>>,
                    !.moved = ok,
                    !.pc = "returned"]
    /\ UNCHANGED <<procVars, moveVars>>

NextLocal == LocalParse \/ LocalConfirm \/ LocalUpload

SpecLocal == InitLocal /\ [][NextLocal]_vars

(***************************************************************************)
(* cleanup_empty_dirs(root).  The tree is the set of its entries, each a    *)
(* path relative to root (<<>> is root itself) and a kind.  Below root run  *)
(* the directories a, a/a, a/a/a, ... and next to each of them a directory  *)
(* b; every directory may hold a file f.                                    *)
(***************************************************************************)
Entry(p, k) == [path |-> p, kind |-> k]

Parent(p) == SubSeq(p, 1, Len(p) - 1)

DirPaths ==
    {p \in Texts({"a", "b"}, MaxDepth) :
        p # <<>> /\ \A i \in 1..(Len(p) - 1) : p[i] = "a"}

FilePaths == {Append(d, "f") : d \in DirPaths \cup {<<>>}}

\* What root can be: a directory with entries below it, a file, or nothing.
Trees ==
    { {Entry(<<>>, "dir")} \cup t :
        t \in { u \in SUBSET ({Entry(p, "dir") : p \in DirPaths}
                                \cup {Entry(p, "file") : p \in FilePaths}) :
                    \A n \in u : Parent(n.path) = <<>>
                                    \/ Entry(Parent(n.path), "dir") \in u } }
        \cup { {Entry(<<>>, "file")}, {} }

\* d.iterdir() on tree t
Children(t, p) == {n \in t : n.path # <<>> /\ Parent(n.path) = p}

\* root.rglob("*"): every entry below root, root itself not included
Rglob(t) == {n \in t : n.path # <<>>}

\* Variant of PartsKey: the shallowest directories sort first.
PartsKeyAscending(p) == 0 - Len(p)

\* key=lambda p: len(p.parts), taken relative to root; sorted(..., reverse=True)
\* visits the entries from the highest key to the lowest.
PartsKey(p) == Len(p)

\* The loop body for the entries of all_dirs whose key is k: a directory that is
\* empty when it is reached is removed, unless iterdir/rmdir raises for it
\* (denied).  Entries of one key are not inside one another, so their order
\* among themselves does not matter.
RmdirKey(t, all_dirs, k, denied) ==
    t \ {n \in all_dirs \cap t :
            /\ n.kind = "dir" /\ PartsKey(n.path) = k
            /\ Children(t, n.path) = {}
            /\ n.path \notin denied}

RECURSIVE CleanFrom(_, _, _, _)
CleanFrom(t, all_dirs, k, denied) ==
    IF k < 0 - MaxDepth THEN t
    ELSE CleanFrom(RmdirKey(t, all_dirs, k, denied), all_dirs, k - 1, denied)

\* cleanup_empty_dirs(root) on tree t; all_dirs is listed once, before the loop.
cleanup_empty_dirs(t, denied) ==
    IF Entry(<<>>, "dir") \notin t THEN t
    ELSE CleanFrom(t, Rglob(t), MaxDepth, denied)

\* The directories for which iterdir or rmdir raises: none, or one below root.
DeniedSets(t) == {{}} \cup {{n.path} : n \in {m \in Rglob(t) : m.kind = "dir"}}

InitClean ==
    /\ InitIdle
    /\ \E t \in Trees : \E denied \in DeniedSets(t) :
        fn = [op |-> "cleanup_empty_dirs", arg |-> [tree |-> t, denied |-> denied],
              ret |-> <<>>, done |-> FALSE]

CleanCall ==
    /\ fn.op = "cleanup_empty_dirs" /\ ~fn.done
    /\ fn' = [fn EXCEPT !.ret = <<cleanup_empty_dirs(fn.arg.tree, fn.arg.denied)>>,
                        !.done = TRUE]
    /\ UNCHANGED <<procVars, moveVars>>

NextClean == CleanCall

SpecClean == InitClean /\ [][NextClean]_vars

(***************************************************************************)
(* _move_after_done on its own, with directories.  A directory is the       *)
(* sequence of its path components; dirs is the set of directories that     *)
(* exist.  The audio file is t.mp3 in tracks_dir or in its subdirectory, the *)
(* lyric file t.lrc or x.lrc in lrc_dir or in its subdirectory.             *)
(***************************************************************************)
TracksDir == <<"tracks">>
Cwd == <<"cwd">>
SubDir(d) == Append(d, "sub")

\* d and the directories above it
Prefixes(d) == {SubSeq(d, 1, k) : k \in 1..Len(d)}

\* d is root or lies below it
Under(d, root) == Len(d) >= Len(root) /\ SubSeq(d, 1, Len(root)) = root

\* run_cli: -d gives tracks_dir and lrc_dir and passes the working directory
\* for both done directories; otherwise -m and each of --done-tracks,
\* --done-lrc may be given or not.  lrc_dir may be tracks_dir itself.
RelocConfigs ==
    { FromEnvAndDefaults(TracksDir, l, <<Cwd>>, <<Cwd>>, TRUE, FALSE) :
        l \in {<<"lrc">>, TracksDir} }
    \cup
    { FromEnvAndDefaults(TracksDir, l, dt, dl, FALSE, m) :
        l \in {<<"lrc">>, TracksDir}, dt \in {<<>>, << <<"done_tracks">> >>},
        dl \in {<<>>, << <<"done_lrc">> >>}, m \in BOOLEAN }

\* meta.path: found by tracks_dir.rglob("*.mp3")
TrackPaths == {Path(d, <<"t">>, ".mp3") : d \in {TracksDir, SubDir(TracksDir)}}

\* lrc_path: None, or a file found by lrc_dir.rglob("*.lrc")
LrcPaths(cfg) ==
    {<<>>} \cup {<<Path(d, st, ".lrc")>> :
                    d \in {cfg.lrc_dir, SubDir(cfg.lrc_dir)}, st \in {<<"t">>, <<"x">>}}

\* Files that may already bear the names the moves aim at.
BlockerPaths(cfg, track) ==
    {Path(cfg.done_tracks_dir, <<"t">>, ".mp3"), Path(cfg.done_tracks_dir, <<"t">>, ".lrc"),
     Path(track.dir, <<"t">>, ".lrc"), Path(cfg.done_lrc_dir, <<"t">>, ".lrc"),
     Path(cfg.done_lrc_dir, <<"x">>, ".lrc")}

\* dst_dir.mkdir(parents=True, exist_ok=True) of every call that did not fail there
DirsAfterMoves(dirs, calls_made) ==
    dirs \cup UNION {Prefixes(calls_made[i].dst_dir) :
                        i \in {k \in 1..Len(calls_made) : calls_made[k].fail # "mkdir"}}

\* What root.rglob("*") shows of the directories and files: paths relative to
\* root; cleanup_empty_dirs does not look at file names, every file is "f".
TreeUnder(dirs, f, root) ==
    {Entry(SubSeq(d, Len(root) + 1, Len(d)), "dir") : d \in {x \in dirs : Under(x, root)}}
        \cup {Entry(Append(SubSeq(e.path.dir, Len(root) + 1, Len(e.path.dir)), "f"), "file") :
                e \in {x \in f : Under(x.path.dir, root)}}

\* cleanup_empty_dirs(root) on the directories dirs holding the files f;
\* deny: iterdir/rmdir raises for every directory.
CleanupDirs(dirs, f, root, deny) ==
    LET t == TreeUnder(dirs, f, root)
        denied == IF deny THEN {n.path : n \in t} ELSE {}
        left == cleanup_empty_dirs(t, denied)
    IN  {d \in dirs :
            Under(d, root) => Entry(SubSeq(d, Len(root) + 1, Len(d)), "dir") \in left}

\* The cleanup calls of _move_after_done, one root after the other.
RECURSIVE CleanupAll(_, _, _, _)
CleanupAll(dirs, f, roots, deny) ==
    IF roots = <<>> THEN dirs
    ELSE CleanupAll(CleanupDirs(dirs, f, Head(roots), deny), f, Tail(roots), deny)

RelocInputs ==
    UNION { [cfg : {c}, track : {t}, lrc_file : LrcPaths(c),
             blockers : SUBSET BlockerPaths(c, t),
             fail1 : MoveFails, fail2 : MoveFails, deny : BOOLEAN] :
            c \in RelocConfigs, t \in TrackPaths }

\* The files and directories found when _move_after_done starts.
RelocFs(a) ==
    {FileOf(p) : p \in {a.track} \cup {a.lrc_file[i] : i \in 1..Len(a.lrc_file)}
                        \cup a.blockers}

RelocDirs(a) ==
    Prefixes(a.cfg.tracks_dir) \cup Prefixes(a.cfg.lrc_dir)
        \cup UNION {Prefixes(e.path.dir) : e \in RelocFs(a)}

\* A failure is given only for a call that is made and gets as far as the
\* failing step; mkdir cannot raise for a directory that exists, and no cleanup
\* call fails where none is made.
RelocFeasible(a) ==
    LET r == MoveAfterDoneOn(RelocFs(a), a.cfg, a.track, a.lrc_file, a.fail1, a.fail2)
        fails == <<a.fail1, a.fail2>>
    IN  /\ \A i \in 1..2 : i > Len(r.mv) => fails[i] = "none"
        /\ \A i \in 1..Len(r.mv) :
                r.mv[i].fail = "mkdir" =>
                    r.mv[i].dst_dir \notin DirsAfterMoves(RelocDirs(a), SubSeq(r.mv, 1, i - 1))
        /\ \A i \in 1..Len(r.mv) :
                r.mv[i].fail = "rename" =>
                    r.mv[i].src # TargetOf(r.mv[i].src, r.mv[i].dst_dir, r.mv[i].new_name)
        /\ a.deny => r.cleanups # <<>>

InitReloc ==
    /\ InitProc
    /\ config = RunCliConfig([yes |-> FALSE, dry_run |-> FALSE,
                              default |-> FALSE, match |-> FALSE])
    /\ mv = <<>>
    /\ \E a \in RelocInputs :
        /\ RelocFeasible(a)
        /\ fs = RelocFs(a)
        /\ fn = [op |-> "_move_after_done", arg |-> a, dirs |-> RelocDirs(a),
                 ret |-> <<>>, done |-> FALSE]

\* _move_after_done(config, meta, lrc_path): the moves, then the cleanup calls.
RelocCall ==
    /\ fn.op = "_move_after_done" /\ ~fn.done
    /\ LET a == fn.arg
           r == MoveAfterDoneOn(fs, a.cfg, a.track, a.lrc_file, a.fail1, a.fail2)
           made == DirsAfterMoves(fn.dirs, r.mv)
       IN  /\ fs' = r.fs
           /\ mv' = r.mv
           /\ fn' = [fn EXCEPT !.ret = <<[dirs |-> CleanupAll(made, r.fs, r.cleanups, a.deny),
                                          cleanups |-> r.cleanups]>>,
                               !.done = TRUE]
    /\ UNCHANGED procVars

NextReloc == RelocCall

SpecReloc == InitReloc /\ [][NextReloc]_vars

(***************************************************************************)
(* http_request_json and ApiClient._api_get_common.  One action is one      *)
(* pass of the retry loop: a request and what the code does with its        *)
(* outcome.  attempts lists the outcomes so far, log the warnings printed.  *)
(***************************************************************************)
\* requests.request raised RequestException, or returned a response.
Raised == [kind |-> "exception", status_code |-> 0, body |-> "none"]
Response(status_code, body) == [kind |-> "response", status_code |-> status_code, body |-> body]

\* Bodies: a JSON object, the empty JSON object, text that is not JSON.
HttpOutcomes ==
    {Raised} \cup {Response(200, b) : b \in {"json", "empty", "undecodable"}}
             \cup {Response(c, "undecodable") : c \in {304, 400, 404, 500}}

\* resp.status_code == 404 and treat_404_as_none
NotFound(o, treat_404_as_none) ==
    o.kind = "response" /\ o.status_code = 404 /\ treat_404_as_none

\* 200 <= resp.status_code < 300
IsSuccess(o) == o.kind = "response" /\ 200 <= o.status_code /\ o.status_code < 300

\* Variant of IsClientError: no status counts as a client error.
IsClientErrorNever(o) == FALSE

\* 400 <= resp.status_code < 500
IsClientError(o) == o.kind = "response" /\ 400 <= o.status_code /\ o.status_code < 500

\* What one pass does with outcome o of attempt number attempt: the warning it
\* prints (<<>> for none) and what it returns (<<>> when the loop goes on).
HttpPass(o, attempt, retries, treat_404_as_none) ==
    LET warn == <<[level |-> "warn", attempt |-> attempt]>>
        last == IF attempt = retries THEN <<None>> ELSE <<>>
    IN  IF o.kind = "exception" THEN [log |-> warn, ret |-> last]
        ELSE IF NotFound(o, treat_404_as_none) THEN [log |-> <<>>, ret |-> <<None>>]
        ELSE IF IsSuccess(o)
             THEN IF o.body = "undecodable"
                  THEN [log |-> warn, ret |-> <<None>>]
                  ELSE [log |-> <<>>, ret |-> <<o.body>>]
        ELSE IF IsClientError(o) THEN [log |-> warn, ret |-> <<None>>]
        ELSE [log |-> warn, ret |-> last]

\* _api_get_common: `if not data: return None`, else the LyricsRecord.
ApiGetCommon(data) == IF data \in {None, "empty"} THEN None ELSE "record"

HttpInputs == [retries : 0..MaxRetries, treat_404_as_none : BOOLEAN]

InitHttp ==
    /\ InitIdle
    /\ \E a \in HttpInputs :
        fn = [op |-> "http_request_json", arg |-> a, attempts |-> <<>>, log |-> <<>>,
              ret |-> <<>>, done |-> FALSE]

\* One iteration of `for attempt in range(1, retries + 1)`.
HttpAttempt ==
    /\ fn.op = "http_request_json" /\ ~fn.done
    /\ Len(fn.attempts) < fn.arg.retries
    /\ \E o \in HttpOutcomes :
        LET r == HttpPass(o, Len(fn.attempts) + 1, fn.arg.retries,
                          fn.arg.treat_404_as_none)
        IN  fn' = [fn EXCEPT !.attempts = Append(@, o),
                             !.log = @ \o r.log,
                             !.ret = r.ret,
                             !.done = r.ret # <<>>]
    /\ UNCHANGED <<procVars, moveVars>>

\* The loop ran out without a return (retries = 0): `return None` after it.
HttpLoopEnd ==
    /\ fn.op = "http_request_json" /\ ~fn.done
    /\ Len(fn.attempts) >= fn.arg.retries
    /\ fn' = [fn EXCEPT !.ret = <<None>>, !.done = TRUE]
    /\ UNCHANGED <<procVars, moveVars>>

NextHttp == HttpAttempt \/ HttpLoopEnd

SpecHttp == InitHttp /\ [][NextHttp]_vars

\* The call is not suspended for ever: requests.request has a timeout and
\* time.sleep(1) returns, so a pass that can be made is made.
SpecHttpLive == SpecHttp /\ WF_vars(NextHttp)

\* The file system after the i-th recorded call of move_with_dedup.
FsAfter(i) == IF i < Len(mv) THEN mv[i + 1].before ELSE fs

(***************************************************************************)
(* Properties of process_track and process_all (checked under Spec).      *)
(***************************************************************************)
PublishedLocal == published # <<>> /\ published[1].source = "local"
PublishFailed == published # <<>> /\ ~published[1].ok

\* A text with nothing but whitespace in it (the empty text included).
Blank(t) == \A i \in 1..Len(t) : IsSpace(t[i])

\* C1: in dry-run mode no track is ever published and no track is ever relocated
\* (no _move_after_done, hence no move_with_dedup and no cleanup_empty_dirs call),
\* whatever the lookups and the local resolution return.
C1_DryRunNeverPublishesNorRelocates ==
    config.dry_run =>
        /\ \A t \in Tracks : nPublish[t] = 0 /\ nRelocate[t] = 0
        /\ calls.move_with_dedup = 0 /\ calls.cleanup = 0

\* C2: after a get_cached hit the track makes no get_external call and no publish
\* call and parses nothing; it only looks up the lyric file and relocates, and it
\* returns relocated whether or not a lyric file was found.  It ends otherwise
\* only by the operator's interrupt or by the exception of an answer to the
\* selection prompt that int() rejects.
C2_CacheHitGoesToRelocation ==
    cached = "hit" =>
        /\ calls.get_external = 0 /\ nPublish[idx] = 0 /\ published = <<>>
        /\ calls.parse = 0
        /\ pc \in {"find", "choose", "move", "returned", "exit"}
        /\ pc = "returned" => outcome[idx] = "done" /\ nRelocate[idx] = 1
        /\ pc = "exit" =>
            \/ outcome[idx] = "interrupted"
            \/ /\ outcome[idx] = "crashed" /\ "choose" \in asked
               /\ Len(candidates) >= 2 /\ nRelocate[idx] = 0

C2_Witness ==
    /\ cached = "hit" /\ pc = "returned" /\ lrc_path = None
    /\ outcome[idx] = "done" /\ nRelocate[idx] = 1

\* C3: a publish call that reports failure ends the track as skipped: it is not
\* relocated, no move or cleanup call is made for it, publish was called once and
\* is never called again for it, and the loop goes on to the next track.
C3_PublishFailureSkipsTrack ==
    /\ PublishFailed =>
        /\ pc = "returned" /\ batch = "running" /\ outcome[idx] = "skipped"
        /\ nPublish[idx] = 1 /\ nRelocate[idx] = 0
        /\ calls.move_with_dedup = 0 /\ calls.cleanup = 0
    /\ \A t \in Tracks :
        (outcome[t] = "skipped" /\ nPublish[t] > 0) =>
            /\ nPublish[t] = 1 /\ nRelocate[t] = 0
            /\ (t < MaxTracks /\ outcome[t + 1] = "pending") =>
                    idx = t /\ batch = "running" /\ pc = "returned"

C3_Witness ==
    /\ idx > 1 /\ outcome[1] = "skipped" /\ nPublish[1] = 1 /\ nRelocate[1] = 0
    /\ outcome[idx] = "done"

\* C4: a failure confined to one track never stops the batch: no track ends with
\* an uncaught failure, and the batch stops with tracks left unprocessed only on
\* an operator abort or an interrupt.
C4_TrackFailureNeverStopsBatch ==
    /\ \A t \in Tracks : outcome[t] # "crashed"
    /\ (batch # "running" /\ \E t \in Tracks : outcome[t] = "pending")
            => batch \in {"aborted", "interrupted"}

\* C5: once the operator has chosen abort, the batch has stopped: the current
\* track was neither published nor relocated, and every later track is still
\* untouched (never started, never published, never relocated).
C5_AbortStopsBatch ==
    /\ batch = "aborted" => outcome[idx] = "aborted"
    /\ \A t \in Tracks :
        outcome[t] = "aborted" =>
            /\ batch = "aborted" /\ pc = "exit" /\ idx = t /\ choice = "q"
            /\ nPublish[t] = 0 /\ nRelocate[t] = 0 /\ published = <<>>
            /\ calls.move_with_dedup = 0 /\ calls.cleanup = 0
            /\ \A u \in Tracks :
                u > t => outcome[u] = "pending" /\ nPublish[u] = 0 /\ nRelocate[u] = 0

C5_Witness ==
    /\ batch = "aborted" /\ idx = 1 /\ outcome[1] = "aborted"
    /\ \E u \in Tracks : u > 1 /\ outcome[u] = "pending"

\* C6: an accepted external hit (use_ext) is published from the external record:
\* as an instrumental marker when the record's flag is set, else with the record's
\* plain and synced text; no local file is parsed or written; on success the track
\* is relocated.  A declined hit and a miss go on to the local lyric resolution.
C6_ExternalDecision ==
    /\ use_ext =>
        /\ external # <<>> /\ parsed = <<>> /\ calls.parse = 0 /\ calls.write = 0
        /\ pc \in {"upload_ext", "find", "choose", "move", "returned", "exit"}
        /\ pc \in {"find", "choose", "move"} => site = "ext_ok"
        /\ published # <<>> =>
            /\ published[1].source = "external" /\ nPublish[idx] = 1
            /\ published[1].kind =
                  (IF external[1].instrumental THEN "instrumental" ELSE "lyrics")
            /\ published[1].kind = "lyrics" =>
                  /\ published[1].plain = external[1].plain
                  /\ published[1].synced = external[1].synced
        /\ (pc # "upload_ext" /\ outcome[idx] # "interrupted") => published # <<>>
        /\ pc = "returned" =>
            IF published[1].ok
            THEN outcome[idx] = "done" /\ nRelocate[idx] = 1
            ELSE outcome[idx] = "skipped" /\ nRelocate[idx] = 0
    /\ ( /\ calls.get_external = 1 /\ ~use_ext /\ outcome[idx] # "interrupted"
         /\ ~config.dry_run
         /\ external = <<>> \/ ("ask_use_ext" \in asked /\ pc # "ask_use_ext") )
        => /\ site = "local"
           /\ published # <<>> => published[1].source # "external"
    /\ (calls.get_external = 1 /\ external = <<>> /\ outcome[idx] # "interrupted")
        => site = "local"

C6_Witness ==
    /\ ~config.auto_yes /\ use_ext /\ pc = "returned" /\ outcome[idx] = "done"
    /\ published # <<>> /\ published[1].kind = "lyrics"
    /\ published[1].plain = ExtPlain /\ published[1].synced = ExtSynced

\* C7 (as stated): a locally parsed file is published as an instrumental marker
\* exactly when the parsed flag is set or both parsed texts are empty, and with
\* the parsed plain and synced text otherwise.
C7_InstrumentalIffFlagOrEmpty ==
    PublishedLocal =>
        /\ published[1].kind = "instrumental" <=>
              (parsed[1].is_instrumental
                 \/ (parsed[1].plain = <<>> /\ parsed[1].synced = <<>>))
        /\ published[1].kind = "lyrics" =>
              /\ published[1].plain = parsed[1].plain
              /\ published[1].synced = parsed[1].synced

\* C7 (amended): a locally parsed file is published as an instrumental marker
\* exactly when the parsed flag is set or both parsed texts are empty once
\* surrounding whitespace is stripped, and with the parsed plain and synced text
\* otherwise.
C7_InstrumentalIffFlagOrBlank ==
    PublishedLocal =>
        /\ published[1].kind \in {"instrumental", "lyrics"}
        /\ published[1].kind = "instrumental" <=>
              (parsed[1].is_instrumental
                 \/ (Blank(parsed[1].plain) /\ Blank(parsed[1].synced)))
        /\ published[1].kind = "lyrics" =>
              /\ published[1].plain = parsed[1].plain
              /\ published[1].synced = parsed[1].synced

C7_Witness ==
    /\ PublishedLocal /\ published[1].kind = "instrumental"
    /\ ~parsed[1].is_instrumental
    /\ parsed[1].synced = <<"\n">> /\ parsed[1].plain = <<>>

\* C8: without auto-accept, locally parsed content is published only after the
\* operator answered yes to the confirmation; any other answer ends the track as
\* skipped, with no publish call and no relocation.
C8_LocalPublishNeedsYes ==
    ~config.auto_yes =>
        /\ (pc = "upload_local" \/ PublishedLocal) =>
              "confirm" \in asked /\ IsYes(choice)
        /\ ( /\ "confirm" \in asked /\ pc # "confirm" /\ ~IsYes(choice)
             /\ outcome[idx] # "interrupted" )
            => /\ pc = "returned" /\ outcome[idx] = "skipped"
               /\ published = <<>> /\ nPublish[idx] = 0 /\ nRelocate[idx] = 0

C8_Witness ==
    /\ ~config.auto_yes /\ PublishedLocal /\ published[1].ok
    /\ "confirm" \in asked /\ IsYes(choice) /\ outcome[idx] = "done"

\* C9: in auto-accept mode process_track never blocks on operator input.
C9_AutoYesNeverAsks ==
    config.auto_yes => asked = {} /\ pc \notin PromptPcs

\* What C12 says of a state in which a move of the track in progress has failed.
C12_AfterFailedMove ==
    /\ \A i \in 1..Len(mv) :
        mv[i].ret = <<>> =>
            /\ FsAfter(i) = mv[i].before
            /\ Exists(mv[i].before, mv[i].src) =>
                  [path |-> mv[i].src, id |-> IdAt(mv[i].before, mv[i].src)] \in fs
    /\ MoveFailed =>
        /\ pc = "returned" /\ batch = "running"
        /\ outcome[idx] = "done" /\ nRelocate[idx] = 1

\* C12: a relocation failure never aborts anything: a failing move_with_dedup
\* returns None and leaves the source file at its path, _move_after_done returns
\* normally, the publish result obtained before is what it was, and the loop's
\* next step takes the next track (or ends the batch after the last one).
C12_RelocationFailureNeverAborts ==
    [][ /\ C12_AfterFailedMove'
        /\ MoveFailed' => published' = published /\ nPublish' = nPublish
        /\ MoveFailed =>
              IF idx < MaxTracks
              THEN /\ idx' = idx + 1 /\ batch' = "running"
                   /\ outcome'[idx + 1] = "running" /\ pc' = "get_cached"
                   /\ outcome'[idx] = "done"
              ELSE batch' = "finished" /\ outcome' = outcome ]_vars

C12_Witness ==
    /\ MoveFailed /\ pc = "returned" /\ idx < MaxTracks
    /\ published # <<>> /\ published[1].ok /\ outcome[idx] = "done"
    /\ mv[1].src = LrcFileOf("l1") /\ mv[1].fail = "rename" /\ Exists(fs, mv[1].src)

(***************************************************************************)
(* Properties of move_with_dedup (checked under SpecMove).                 *)
(***************************************************************************)
\* C10: move_with_dedup never overwrites or removes an existing file: every file
\* other than src is where it was, and the file that was at src still exists; and
\* when the target name existed and was not src itself, a successful move put src
\* under the target name plus a _dupN suffix, a name that did not exist before,
\* and left the file at the target name in place.
C10_MoveNeverOverwrites ==
    mv # <<>> =>
        LET m == mv[1]
            target == TargetOf(m.src, m.dst_dir, m.new_name)
        IN  /\ \A e \in m.before : e.path # m.src => e \in fs
            /\ Exists(m.before, m.src) =>
                  \E e \in fs : e.id = IdAt(m.before, m.src)
            /\ (Exists(m.before, target) /\ target # m.src /\ m.ret # <<>>) =>
                  /\ ~Exists(m.before, m.ret[1])
                  /\ m.ret[1].dir = m.dst_dir /\ m.ret[1].ext = target.ext
                  /\ \E n \in 1..(Cardinality(m.before) + 1) :
                        m.ret[1].stem = DupStem(target.stem, n)
                  /\ [path |-> m.ret[1], id |-> IdAt(m.before, m.src)] \in fs
                  /\ [path |-> target, id |-> IdAt(m.before, target)] \in fs
                  /\ ~Exists(fs, m.src)

C10_Witness ==
    /\ mv # <<>> /\ mv[1].ret # <<>>
    /\ mv[1].src = Path("in", <<"a">>, ".lrc") /\ mv[1].dst_dir = "done"
    /\ Exists(mv[1].before, Path("done", <<"a">>, ".lrc"))
    /\ Exists(mv[1].before, Path("done", <<"a", 1>>, ".lrc"))
    /\ mv[1].ret[1] = Path("done", <<"a", 2>>, ".lrc")

\* C11: when src already is the target (the file exists in dst_dir under the target
\* name), every call of move_with_dedup returns the original path and leaves the
\* file system as it was: no _dup copy appears, no file changes, and repeated calls
\* with the same arguments leave the directory as after the first call.
C11_SameFileIsNoOp ==
    \A i \in 1..Len(mv) :
        LET m == mv[i] IN
        (m.src = TargetOf(m.src, m.dst_dir, m.new_name) /\ Exists(m.before, m.src)) =>
            /\ m.ret = <<m.src>>
            /\ FsAfter(i) = m.before
            /\ fs = mv[1].before

C11_Witness ==
    /\ Len(mv) = MaxCalls
    /\ mv[1].src = Path("done", <<"a">>, ".lrc") /\ mv[1].dst_dir = "done"
    /\ mv[1].new_name = <<"a">>
    /\ Exists(mv[1].before, mv[1].src)
    /\ mv[MaxCalls].ret = <<mv[1].src>> /\ fs = mv[1].before

(***************************************************************************)
(* Properties of split_artists (checked under SpecArtists).                *)
(***************************************************************************)
\* C13: for an artist string that joins names with "feat.", "featuring" and the
\* recognized separators, split_artists returns exactly the lowercased, trimmed
\* names in first-seen order, without duplicates or empty tokens and without any
\* residue of the marker ("A feat. B & C" gives a, b, c).
C13_SplitArtistsRemovesMarkers ==
    fn.done =>
        fn.ret = Unique(<<Lower(fn.arg.names[1]), Lower(fn.arg.names[2]),
                          Lower(fn.arg.names[3])>>)

(***************************************************************************)
(* Properties of normalize_name (checked under SpecNormalize).             *)
(***************************************************************************)
\* C15: normalize_name is idempotent: normalizing what normalize_name returned
\* returns the same string.
C15_NormalizeIdempotent ==
    fn.done => fn.ret[2] = fn.ret[1]

(***************************************************************************)
(* Properties of find_lrc_for_track (checked under SpecFind).              *)
(***************************************************************************)
\* The two conditions of C14 for a lyric file: its normalized title equals the
\* track's, and the two normalized artist sets have a name in common.
TitleAndArtistMatch(stem) ==
    LET p == parse_lrc_filename(stem) IN
    /\ p.title = normalize_name(fn.arg.title)
    /\ NormSet(split_artists(fn.arg.artist)) \cap NormSet(p.artists) # {}

Listed == {fn.arg.listing[i] : i \in 1..Len(fn.arg.listing)}

\* C14 (as stated): find_lrc_for_track returns a path only if that file's
\* normalized title equals the track's and the normalized artist sets share a
\* name; it returns None exactly when no lyric file satisfies both conditions.
C14_FindReturnsMatchOrNone ==
    fn.done =>
        /\ fn.ret # <<>> => fn.ret[1] \in Listed /\ TitleAndArtistMatch(fn.ret[1])
        /\ fn.ret = <<>> <=> ~\E f \in Listed : TitleAndArtistMatch(f)

\* C14 (amended): as above for files whose normalized title is not empty; a file
\* whose title normalizes to the empty string is never returned, so None is
\* returned exactly when no lyric file with a non-empty normalized title
\* satisfies both conditions.
C14_FindReturnsTitledMatchOrNone ==
    fn.done =>
        /\ fn.ret # <<>> =>
            /\ fn.ret[1] \in Listed /\ TitleAndArtistMatch(fn.ret[1])
            /\ parse_lrc_filename(fn.ret[1]).title # <<>>
        /\ fn.ret = <<>> <=>
            ~\E f \in Listed :
                TitleAndArtistMatch(f) /\ parse_lrc_filename(f).title # <<>>

\* A file returned on a shared name although neither artist set holds the other.
C14_Witness ==
    /\ fn.done /\ fn.ret # <<>>
    /\ fn.arg.artist = <<"A", " ", "&", " ", "b">>
    /\ fn.ret[1] = <<"b", "/", "c">> \o Dash \o <<"a">>
    /\ Len(fn.arg.listing) > 1

InputLine(i) == fn.arg.lines[i]
LineNumbers == 1..Len(fn.arg.lines)

\* Input line i is in the synced output as it stands in the file / in the plain
\* output / in neither.
InSynced(i) ==
    \E k \in 1..Len(fn.ret[1].synced) :
        fn.ret[1].synced[k] = [src |-> i, text |-> InputLine(i)]
InPlain(i) == \E k \in 1..Len(fn.ret[1].plain) : fn.ret[1].plain[k].src = i
Absent(i) ==
    /\ ~\E k \in 1..Len(fn.ret[1].synced) : fn.ret[1].synced[k].src = i
    /\ ~InPlain(i)

\* Line i, surrounding whitespace aside, starts with a timestamp [mm:ss.ff(f)].
StandardLine(i) == \E k \in 1..Len(InputLine(i)) :
                      /\ InputLine(i)[k] \in StdStamps
                      /\ \A j \in 1..(k - 1) : InputLine(i)[j] = " "

\* The number of the first such line, 0 if there is none.
FirstStandardLine ==
    IF \E i \in LineNumbers : StandardLine(i)
    THEN CHOOSE i \in LineNumbers :
            StandardLine(i) /\ \A k \in 1..(i - 1) : ~StandardLine(k)
    ELSE 0

C18_ContentStartsAtStandardStamp ==
    fn.done =>
        /\ \A i \in LineNumbers :
            (FirstStandardLine = 0 \/ i < FirstStandardLine) => Absent(i)
        /\ FirstStandardLine = 0 =>
            /\ fn.ret[1].synced = <<>> /\ fn.ret[1].plain = <<>>
            /\ ~fn.ret[1].is_instrumental

C18_Witness ==
    /\ fn.done /\ Len(fn.arg.lines) = 3
    /\ InputLine(1) = <<"[00:01]", "la">> /\ InputLine(2) = <<"la">>
    /\ InputLine(3) = <<"[ar:x]">>
    /\ fn.ret[1].synced = <<>> /\ fn.ret[1].plain = <<>>

\* Line i has the credit form once a leading timestamp, if any, is removed:
\* a role keyword, a colon, a text.
CreditForm(i) ==
    LET t == Strip(InputLine(i))
        text == IF HasStamp(t) THEN Tail(t) ELSE t
    IN  Len(text) >= 3 /\ text[1] \in CreditKeywords /\ text[2] = ":"

\* C19 (as stated): every credit line, with or without a leading timestamp, is
\* absent from both the plain and the synced output.
C19_CreditLinesDropped ==
    fn.done => \A i \in LineNumbers : CreditForm(i) => Absent(i)

\* C19 (amended): every credit line that starts with a timestamp is absent from
\* both outputs; a credit line without a timestamp is absent only when it stands
\* before the first standard-timestamp line, and is kept in both outputs after it.
C19_TimedCreditLinesDropped ==
    fn.done =>
        \A i \in LineNumbers :
            CreditForm(i) =>
                IF HasStamp(Strip(InputLine(i))) \/ FirstStandardLine = 0
                     \/ i < FirstStandardLine
                THEN Absent(i)
                ELSE InSynced(i) /\ InPlain(i)

C19_Witness ==
    /\ fn.done /\ Len(fn.arg.lines) = 3
    /\ InputLine(1) = <<"[00:02.00]", "U+4F60">>
    /\ InputLine(2) = <<"[00:01.00]", "U+4F5C.U+8BCD", ":", "la">>
    /\ InputLine(3) = <<"U+4F5C.U+8BCD", ":", "la">>
    /\ InSynced(1) /\ Absent(2) /\ InSynced(3) /\ InPlain(3)

\* Line i is a timestamped line with CJK text right after a kept timestamped line
\* without CJK text that has the identical timestamp.
FollowsSameStamp(i) ==
    LET t == Strip(InputLine(i))
        u == Strip(InputLine(i - 1))
    IN  /\ HasStamp(t) /\ ContainsCjk(Tail(t))
        /\ HasStamp(u) /\ ~ContainsCjk(Tail(u)) /\ u[1] = t[1]
        /\ InSynced(i - 1)

\* The line before line i is in the synced output, and in the plain output if
\* it has text (a timestamp alone gives an empty plain line, trimmed at the ends).
KeptBefore(i) ==
    /\ InSynced(i - 1)
    /\ Tail(Strip(InputLine(i - 1))) # <<>> => InPlain(i - 1)

\* C20 (as stated): such a line is dropped from both outputs when
\* remove_translations is true and kept in both when it is false; the line before
\* it is kept in both cases.
C20_TranslationFollowsFlag ==
    fn.done =>
        \A i \in LineNumbers \ {1} :
            FollowsSameStamp(i) =>
                /\ KeptBefore(i)
                /\ IF fn.arg.remove_translations
                   THEN Absent(i)
                   ELSE InSynced(i) /\ InPlain(i)

\* Line i is an instrumental-marker line or a credit line (dropped whatever the flag).
MarkerOrCredit(i) ==
    CreditForm(i) \/ \E k \in 1..Len(InputLine(i)) : InputLine(i)[k] \in PureMusicPhrases

\* C20 (amended): the same for a line that is neither a credit line nor an
\* instrumental-marker line; those two are dropped whatever remove_translations is.
C20_LyricTranslationFollowsFlag ==
    fn.done =>
        \A i \in LineNumbers \ {1} :
            FollowsSameStamp(i) =>
                /\ KeptBefore(i)
                /\ IF fn.arg.remove_translations \/ MarkerOrCredit(i)
                   THEN Absent(i)
                   ELSE InSynced(i) /\ InPlain(i)

C20_Witness ==
    /\ fn.done /\ ~fn.arg.remove_translations /\ Len(fn.arg.lines) = 3
    /\ InputLine(1) = <<"[00:01.00]", "la">> /\ InputLine(2) = <<"[00:01.00]", "U+4F60">>
    /\ InputLine(3) = <<"[00:01.00]", "U+4F5C.U+8BCD", ":", "la">>
    /\ InSynced(2) /\ InPlain(2) /\ Absent(3)

\* Line i starts with a timestamp (standard or extended) and its text contains
\* an instrumental-marker phrase.
MarkerLine(i) ==
    LET t == Strip(InputLine(i)) IN
    /\ t # <<>> /\ t[1] \in ExtStamps
    /\ \E k \in 2..Len(t) : t[k] \in PureMusicPhrases

\* Line i stands at or after the first standard-timestamp line.
AfterStart(i) == FirstStandardLine # 0 /\ i >= FirstStandardLine

\* A marker line was seen by the line classifier.
MarkerSeen == \E i \in LineNumbers : MarkerLine(i) /\ AfterStart(i)

\* The joined output text is the empty string.
EmptyText(ls) == ls = <<>> \/ (Len(ls) = 1 /\ ls[1].text = <<>>)

\* The joined output text is empty once surrounding whitespace is trimmed.
BlankText(ls) == \A k \in 1..Len(ls) : ls[k].text = <<>>

\* C21 (as stated): the returned is_instrumental flag is true exactly when an
\* instrumental-marker line was seen or both the synced and the plain output
\* are empty.
C21_FlagIsMarkerOrEmpty ==
    fn.done =>
        (fn.ret[1].is_instrumental <=>
            MarkerSeen \/ (EmptyText(fn.ret[1].synced) /\ EmptyText(fn.ret[1].plain)))

\* C21 (amended): the returned is_instrumental flag is true exactly when an
\* instrumental-marker line was seen at or after the first standard-timestamp
\* line; empty outputs alone leave it false.
C21_FlagIsMarkerSeen ==
    fn.done => (fn.ret[1].is_instrumental <=> MarkerSeen)

\* A file with lines but without a marker line: both outputs empty, flag false.
C21_Witness ==
    /\ fn.done /\ Len(fn.arg.lines) = 2
    /\ InputLine(1) = <<"[00:01.00]", "U+4F5C.U+8BCD", ":", "la">>
    /\ InputLine(2) = <<>>
    /\ EmptyText(fn.ret[1].synced) /\ EmptyText(fn.ret[1].plain)
    /\ ~fn.ret[1].is_instrumental

\* Every line of the file is a marker line or blank, and there is a marker line.
OnlyMarkerLines ==
    /\ \E i \in LineNumbers : MarkerLine(i)
    /\ \A i \in LineNumbers : MarkerLine(i) \/ Strip(InputLine(i)) = <<>>

\* C22 (as stated): every timestamped line whose text contains a marker phrase
\* is dropped from both outputs and sets is_instrumental; a file whose only
\* lyric lines are marker lines gives is_instrumental = true and empty outputs.
C22_MarkerLinesSetFlag ==
    fn.done =>
        /\ \A i \in LineNumbers :
            MarkerLine(i) => Absent(i) /\ fn.ret[1].is_instrumental
        /\ OnlyMarkerLines =>
            /\ fn.ret[1].is_instrumental
            /\ BlankText(fn.ret[1].synced) /\ BlankText(fn.ret[1].plain)

\* C22 (amended): every such line is dropped from both outputs, and sets
\* is_instrumental when it stands at or after the first standard-timestamp
\* line; a file of marker lines gives empty outputs, and is_instrumental = true
\* exactly when one of them stands at or after a standard-timestamp line.
C22_StartedMarkerLinesSetFlag ==
    fn.done =>
        /\ \A i \in LineNumbers :
            MarkerLine(i) =>
                /\ Absent(i)
                /\ AfterStart(i) => fn.ret[1].is_instrumental
        /\ OnlyMarkerLines =>
            /\ fn.ret[1].is_instrumental <=> FirstStandardLine # 0
            /\ BlankText(fn.ret[1].synced) /\ BlankText(fn.ret[1].plain)

\* A marker line before the start and one after it.
C22_Witness ==
    /\ fn.done /\ Len(fn.arg.lines) = 2
    /\ InputLine(1) = <<"[00:01]", "U+7EAF..U+8D4F">>
    /\ InputLine(2) = <<"[00:01.00]", "U+7EAF..U+8D4F">>
    /\ Absent(1) /\ Absent(2) /\ fn.ret[1].is_instrumental
    /\ fn.ret[1].synced = <<>> /\ fn.ret[1].plain = <<>>

(***************************************************************************)
(* Properties of cleanup_empty_dirs (checked under SpecClean).             *)
(***************************************************************************)
\* Entry n lies below the directory at path p.
Below(n, p) == Len(n.path) > Len(p) /\ SubSeq(n.path, 1, Len(p)) = p

\* C23: cleanup_empty_dirs adds nothing, keeps root and every file, removes only
\* directories below which nothing is left, and, when no iterdir/rmdir call
\* fails, leaves no empty directory below root (directories emptied by the
\* removal of their subdirectories included).
C23_CleanupRemovesExactlyEmptyDirs ==
    fn.done =>
        LET before == fn.arg.tree
            after == fn.ret[1]
        IN  /\ after \subseteq before
            /\ \A n \in before : (n.path = <<>> \/ n.kind = "file") => n \in after
            /\ \A n \in before \ after :
                    /\ n.kind = "dir"
                    /\ ~\E m \in after : Below(m, n.path)
                    /\ ~\E m \in before : m.kind = "file" /\ Below(m, n.path)
            /\ (fn.arg.denied = {} /\ Entry(<<>>, "dir") \in before) =>
                    \A n \in after :
                        (n.kind = "dir" /\ n.path # <<>>) =>
                            \E m \in after : Below(m, n.path)

\* A chain of empty directories a/a/a next to a directory that holds a file:
\* the chain is gone, root and the file's directory stay.
C23_Witness ==
    /\ fn.done /\ fn.arg.denied = {}
    /\ fn.arg.tree = {Entry(<<>>, "dir"), Entry(<<"a">>, "dir"),
                       Entry(<<"a", "a">>, "dir"), Entry(<<"a", "a", "a">>, "dir"),
                       Entry(<<"b">>, "dir"), Entry(<<"b", "f">>, "file")}
    /\ fn.ret[1] = {Entry(<<>>, "dir"), Entry(<<"b">>, "dir"),
                     Entry(<<"b", "f">>, "file")}

(***************************************************************************)
(* Properties of _move_after_done (checked under SpecReloc).               *)
(***************************************************************************)
\* Where the file that was at path p when the call started is now.
NowAt(p) == (CHOOSE e \in fs : e.id = p).path

\* The files found when the call started, each under its path of then.
FilesBefore == {FileOf(e.id) : e \in fs}

\* Directory d holds nothing: no file, no directory.
EmptyDir(dirs, d) ==
    /\ ~\E e \in fs : e.path.dir = d
    /\ ~\E x \in dirs : x # d /\ Under(x, d)

\* No empty directory is left below the two input directories.
SourceDirsClean ==
    \A d \in fn.ret[1].dirs :
        (d \notin {fn.arg.cfg.tracks_dir, fn.arg.cfg.lrc_dir}
            /\ (Under(d, fn.arg.cfg.tracks_dir) \/ Under(d, fn.arg.cfg.lrc_dir)))
        => ~EmptyDir(fn.ret[1].dirs, d)

\* C24 (as stated): in each of the three modes cleanup_empty_dirs is called on
\* tracks_dir and on lrc_dir once the moves are made, so that (when no rmdir
\* fails) a directory the moves emptied is gone.
C24_CleanupInEveryMode ==
    fn.done =>
        /\ fn.ret[1].cleanups = <<fn.arg.cfg.tracks_dir, fn.arg.cfg.lrc_dir>>
        /\ ~fn.arg.deny => SourceDirsClean

\* C24 (amended): the same in the independent and the match-rename mode; in the
\* lyrics-follow-track mode no cleanup is called and no directory is removed.
C24_CleanupExceptPairMode ==
    fn.done =>
        IF fn.arg.cfg.pair_lrc_with_track_dir
        THEN fn.ret[1].cleanups = <<>> /\ fn.dirs \subseteq fn.ret[1].dirs
        ELSE /\ fn.ret[1].cleanups = <<fn.arg.cfg.tracks_dir, fn.arg.cfg.lrc_dir>>
             /\ ~fn.arg.deny => SourceDirsClean

\* Independent mode: the audio file leaves tracks/sub, which is then removed.
C24_Witness ==
    /\ fn.done /\ ~fn.arg.deny
    /\ ~fn.arg.cfg.pair_lrc_with_track_dir /\ ~fn.arg.cfg.match_mode
    /\ fn.arg.track.dir = SubDir(TracksDir)
    /\ NowAt(fn.arg.track).dir = <<"done_tracks">>
    /\ SubDir(TracksDir) \in fn.dirs /\ SubDir(TracksDir) \notin fn.ret[1].dirs

\* C26: with keep_in_place set (no done directory given), no audio or lyric
\* file has changed directory when _move_after_done returns.
C26_KeepInPlaceKeepsDirectories ==
    (fn.done /\ fn.arg.cfg.keep_in_place) =>
        \A e \in fs : e.path.dir = e.id.dir

\* In match mode with a lyric file: the lyric file was moved.
MatchLrcMoved ==
    /\ fn.done /\ fn.arg.cfg.match_mode /\ ~fn.arg.cfg.pair_lrc_with_track_dir
    /\ fn.arg.lrc_file # <<>>
    /\ NowAt(fn.arg.lrc_file[1]) # fn.arg.lrc_file[1]

C28_PairModeMovesOnlyLyric ==
    (fn.done /\ fn.arg.cfg.pair_lrc_with_track_dir) =>
        /\ fn.ret[1].dirs = fn.dirs
        /\ \A e \in fs :
            \/ e.path = e.id
            \/ /\ fn.arg.lrc_file = <<e.id>>
               /\ e.path.dir = fn.arg.track.dir /\ e.path.ext = ".lrc"
               /\ \/ e.path.stem = fn.arg.track.stem
                  \/ \E n \in 1..(MaxDup + 1) :
                        e.path.stem = Append(fn.arg.track.stem, n)
               /\ ~\E o \in FilesBefore : o.path = e.path

\* The lyric file leaves lrc/sub for the audio file's directory, where t.lrc
\* exists: it becomes t_dup1.lrc, and the emptied lrc/sub stays.
C28_Witness ==
    /\ fn.done /\ fn.arg.cfg.pair_lrc_with_track_dir
    /\ fn.arg.lrc_file = <<Path(<<"lrc", "sub">>, <<"x">>, ".lrc")>>
    /\ NowAt(fn.arg.lrc_file[1]) = Path(fn.arg.track.dir, <<"t", 1>>, ".lrc")
    /\ NowAt(fn.arg.track) = fn.arg.track
    /\ <<"lrc", "sub">> \in fn.ret[1].dirs /\ EmptyDir(fn.ret[1].dirs, <<"lrc", "sub">>)

(***************************************************************************)
(* Properties of the remote lookup (checked under SpecHttp, SpecHttpLive). *)
(***************************************************************************)
\* What get_cached / get_external returns for the finished request.
LookupResult == ApiGetCommon(fn.ret[1])

LastOutcome == fn.attempts[Len(fn.attempts)]

\* The lookup ended with a 404 response.
EndedNotFound ==
    /\ fn.attempts # <<>>
    /\ LastOutcome.kind = "response" /\ LastOutcome.status_code = 404

\* The lookup ended without any answer of the server about the track: the last
\* request raised, or got a status other than 2xx and 404, or a 2xx body that
\* is not JSON, or there was no attempt left to make.
EndedInFailure ==
    \/ fn.attempts = <<>>
    \/ LastOutcome.kind = "exception"
    \/ LastOutcome.kind = "response" /\ LastOutcome.status_code \notin {200, 404}
    \/ LastOutcome.kind = "response" /\ LastOutcome.status_code = 200
            /\ LastOutcome.body = "undecodable"

\* A warning was printed for attempt number n.
Warned(n) == \E k \in 1..Len(fn.log) : fn.log[k].attempt = n

\* C25: as the client calls it (a 404 read as None), a lookup that ends in
\* not-found and one that ends in failure both return None, the failure has
\* been logged by a warning and the not-found has not, whatever the retry count.
C25_FailureLoggedNotFoundSilent ==
    (fn.done /\ fn.arg.treat_404_as_none) =>
        /\ EndedNotFound => LookupResult = None /\ ~Warned(Len(fn.attempts))
        /\ EndedInFailure => LookupResult = None /\ fn.log # <<>>
                                /\ Warned(Len(fn.attempts))

\* An outcome after which the loop goes on: a raised request, or a response
\* that is neither the 404 read as None, nor 2xx, nor 4xx.
Retried(o) ==
    \/ o.kind = "exception"
    \/ /\ o.kind = "response"
       /\ o.status_code \notin {200, 400, 404}

\* At most max_retries attempts; every attempt but the last had an outcome
\* that transient accepts; a 2xx, a 404 and any other 4xx end the call at once; and
\* the call returns None when max_retries attempts were all retried ones.
HttpRetryRule(transient(_)) ==
    /\ Len(fn.attempts) <= fn.arg.retries
    /\ \A i \in 1..(Len(fn.attempts) - 1) : transient(fn.attempts[i])
    /\ \A i \in 1..Len(fn.attempts) :
            (fn.attempts[i].kind = "response"
                /\ fn.attempts[i].status_code \in {200, 400, 404})
            => fn.done /\ i = Len(fn.attempts)
    /\ (fn.attempts # <<>> /\ Len(fn.attempts) = fn.arg.retries) => fn.done
    /\ (fn.done /\ \A i \in 1..Len(fn.attempts) : transient(fn.attempts[i]))
            => Len(fn.attempts) = fn.arg.retries /\ fn.ret = <<None>>

NetworkOr5xx(o) ==
    o.kind = "exception" \/ (o.kind = "response" /\ o.status_code >= 500)

\* C30 (as stated): http_request_json always terminates, makes at most
\* max_retries attempts, re-attempts only after a network exception or a 5xx
\* response, returns at once on 2xx, 404 and any other 4xx, and returns None
\* once max_retries attempts have all failed transiently.
C30_RetriesOnlyNetworkOr5xx ==
    /\ [](fn.op = "http_request_json" => HttpRetryRule(NetworkOr5xx))
    /\ <>(fn.done)

\* C30 (amended): the same, where the responses re-attempted are all those
\* whose status is neither 2xx nor 4xx (5xx, and 3xx such as 304 as well).
C30_RetriesAllButSuccessAndClientError ==
    /\ [](fn.op = "http_request_json" => HttpRetryRule(Retried))
    /\ <>(fn.done)

\* Three attempts, a raised request, a 500 and a 304, and None at the end.
C30_Witness ==
    /\ fn.done /\ fn.arg.retries = 3 /\ fn.ret = <<None>>
    /\ fn.attempts = <<Raised, Response(500, "undecodable"), Response(304, "undecodable")>>

(***************************************************************************)
(* Properties of remote records in process_track (checked under Spec).    *)
(***************************************************************************)
\* The record get_external returned has no text at all.
ExternalEmpty == external[1].plain = <<>> /\ external[1].synced = <<>>

\* C29: a record built from a remote response is instrumental whenever its
\* plain and synced text are both empty; an accepted external record without
\* text is published as an instrumental marker, and what is published as
\* lyrics from an external record has text.
C29_EmptyRemoteRecordIsInstrumental ==
    /\ (external # <<>> /\ ExternalEmpty) => external[1].instrumental
    /\ (published # <<>> /\ published[1].source = "external") =>
        /\ external # <<>> /\ use_ext
        /\ ExternalEmpty => published[1].kind = "instrumental"
        /\ published[1].kind = "lyrics" =>
            /\ published[1].plain # <<>> \/ published[1].synced # <<>>
            /\ published[1].plain = external[1].plain
            /\ published[1].synced = external[1].synced

\* An accepted external record without text, published as an instrumental marker.
C29_Witness ==
    /\ published # <<>> /\ published[1].source = "external"
    /\ external # <<>> /\ ExternalEmpty
    /\ published[1].kind = "instrumental"

(***************************************************************************)
(* Further properties of parse_lrc_file (checked under SpecParse).         *)
(***************************************************************************)
\* Line i is a lyric line as the loop sees it: at or after the first
\* standard-timestamp line, starting with a timestamp, neither an
\* instrumental-marker line nor a credit line.
LyricForm(i) ==
    /\ AfterStart(i)
    /\ Strip(InputLine(i)) # <<>> /\ Strip(InputLine(i))[1] \in ExtStamps
    /\ ~MarkerOrCredit(i)

StampOf(i) == Strip(InputLine(i))[1]

CjkLyric(i) ==
    LyricForm(i) /\ \E k \in 2..Len(Strip(InputLine(i))) : Strip(InputLine(i))[k] \in CjkTokens

\* Line j is the nearest non-blank line before line i.
PrecedingNonBlank(j, i) ==
    /\ j < i /\ ~Blank(InputLine(j))
    /\ \A k \in (j + 1)..(i - 1) : Blank(InputLine(k))

\* C31 (as stated): with remove_translations, a timestamped CJK line is dropped
\* whenever the nearest non-blank line before it is a lyric line with the
\* identical timestamp, blank lines between the two or not.
C31_TranslationDroppedAcrossBlanks ==
    (fn.done /\ fn.arg.remove_translations) =>
        \A i \in LineNumbers : \A j \in LineNumbers :
            (CjkLyric(i) /\ PrecedingNonBlank(j, i) /\ LyricForm(j)
                /\ StampOf(j) = StampOf(i))
            => Absent(i)

\* C31 (amended): a timestamped CJK lyric line is dropped exactly when
\* remove_translations is set and the line right before it is a lyric line
\* with the identical timestamp (kept, or dropped as a translation itself);
\* a blank line between the two breaks the pairing and the line is kept.
C31_TranslationDroppedAfterAdjacentLine ==
    fn.done =>
        \A i \in LineNumbers :
            CjkLyric(i) =>
                IF /\ fn.arg.remove_translations
                   /\ i > 1 /\ LyricForm(i - 1) /\ StampOf(i - 1) = StampOf(i)
                THEN Absent(i)
                ELSE InSynced(i) /\ InPlain(i)

\* A lyric line, a blank line, and a CJK line with the same timestamp, kept.
C31_Witness ==
    /\ fn.done /\ fn.arg.remove_translations /\ Len(fn.arg.lines) = 3
    /\ InputLine(1) = <<"[00:01.00]", "la">> /\ InputLine(2) = <<>>
    /\ InputLine(3) = <<"[00:01.00]", "U+4F60">>
    /\ InSynced(1) /\ InSynced(3) /\ InPlain(3)

(***************************************************************************)
(* Order and number of a track's calls (checked under Spec).               *)
(***************************************************************************)
\* The publish call of the track in progress reported success.
PublishedOk == published # <<>> /\ published[1].ok

\* C32: for the track in progress (until the batch has finished), get_cached
\* is the first call and is made once; get_external is made at most once and only after get_cached
\* returned a miss; publish is called at most once and only after both lookups
\* returned; _move_after_done is called at most once and only after a cache
\* hit or a publish that reported success.  A track that was interrupted
\* before get_cached returned has made no call at all, and the counts of the
\* finished tracks stay at most one.
C32_CallsOrderedAndBounded ==
    /\ \A t \in Tracks : nPublish[t] <= 1 /\ nRelocate[t] <= 1
    /\ batch # "finished" =>
        /\ pc = "get_cached" => calls = NoCalls /\ cached = "unset"
        /\ calls.get_cached <= 1
        /\ (calls.get_cached = 1) = (cached \in {"hit", "miss"})
        /\ pc \notin {"get_cached", "exit"} => calls.get_cached = 1
        /\ cached = "unset" =>
                calls = NoCalls /\ nPublish[idx] = 0 /\ nRelocate[idx] = 0
        /\ calls.get_external <= 1
        /\ calls.get_external = 1 => cached = "miss"
        /\ (nPublish[idx] = 1) = (published # <<>>)
        /\ nPublish[idx] = 1 => cached = "miss" /\ calls.get_external = 1
        /\ nRelocate[idx] = 1 => cached = "hit" \/ PublishedOk
        /\ cached = "hit" => calls.get_external = 0 /\ nPublish[idx] = 0

\* A track that went through both lookups, one publish and the relocation.
C32_Witness ==
    /\ calls.get_cached = 1 /\ calls.get_external = 1 /\ cached = "miss"
    /\ nPublish[idx] = 1 /\ PublishedOk /\ nRelocate[idx] = 1

(***************************************************************************)
(* Properties of the normalize-only mode (checked under SpecMode).         *)
(***************************************************************************)
\* C34: normalization is idempotent: when a run has written its synced output
\* to the file, the next run parses that file to the same synced and the same
\* plain output, and leaves the file as it is.
C34_NormalizationIdempotent ==
    \A k \in 1..(Len(fn.runs) - 1) :
        fn.runs[k].written =>
            /\ fn.runs[k + 1].synced = fn.runs[k].synced
            /\ fn.runs[k + 1].plain = fn.runs[k].plain
            /\ fn.runs[k + 1].written => fn.file = fn.runs[k + 1].before

(***************************************************************************)
(* Properties of the write-back in process_track (checked under SpecLocal).*)
(***************************************************************************)
\* The flow is past the parse step: at the confirmation, at the upload, or
\* returned after one of them.
PastParse == fn.written # <<>>

\* C33 (as stated): outside dry-run the lyric file holds the parsed synced
\* text from before the confirmation is asked and before publish is called,
\* and still does when the operator declined or the publish failed; in
\* dry-run the file is never written.
C33_FileRewrittenBeforeConfirm ==
    /\ fn.arg.dry_run => fn.written = <<>> /\ fn.file = JoinLines(fn.arg.lines)
    /\ (fn.pc \in {"confirm", "upload"} \/ fn.asked \/ fn.published # <<>>) =>
            ~fn.arg.dry_run /\ PastParse /\ fn.file = fn.ret[1].synced

\* C33 (amended): write_lrc_file has been called with the parsed synced text
\* before the confirmation is asked and before publish is called; the file
\* holds that text from then on if the write went through, and is as it was
\* or truncated if the write failed, in which case the flow goes on all the
\* same; in dry-run the file is never written.
C33_WriteAttemptedBeforeConfirm ==
    /\ fn.arg.dry_run => fn.written = <<>> /\ fn.file = JoinLines(fn.arg.lines)
    /\ (fn.pc \in {"confirm", "upload"} \/ fn.asked \/ fn.published # <<>>) =>
            /\ ~fn.arg.dry_run /\ PastParse
            /\ fn.written = <<"ok">> => fn.file = fn.ret[1].synced
            /\ fn.written = <<"failed">> => fn.file = JoinLines(fn.arg.lines)
            /\ fn.written = <<"truncated">> => fn.file = <<>>
    /\ PastParse => fn.pc # "parse" /\ fn.ret # <<>>

\* The operator declined after the file had been rewritten to a different text.
C33_Witness ==
    /\ fn.pc = "returned" /\ fn.asked /\ fn.published = <<>>
    /\ fn.written = <<"ok">> /\ fn.file = fn.ret[1].synced
    /\ fn.file # JoinLines(fn.arg.lines)

(***************************************************************************)
(* Termination of process_track and its prompts (checked under SpecLive).  *)
(***************************************************************************)
\* The multiple-match prompt and the no-local-lyric prompt with its manual
\* path and suffix questions.
SelectionPrompts == {"choose", "ask_missing", "ask_path", "confirm_suffix"}

\* A step taken at one of these prompts asks again with no upload, no
\* relocation and no file changed, or goes on with the accepted answer (to
\* the parse, the move, the marker upload, the skip or the abort), or is the
\* operator's interrupt.
PromptStep ==
    pc \in SelectionPrompts =>
        \/ /\ pc' \in SelectionPrompts
           /\ UNCHANGED <<nPublish, nRelocate, published, calls, fs, mv, lrc_path,
                          outcome, batch>>
        \/ pc' \in {"parse", "move", "upload_marker"} /\ UNCHANGED <<outcome, batch>>
        \/ pc' = "returned" /\ outcome'[idx] = "skipped"
        \/ pc' = "exit" /\ outcome'[idx] \in {"aborted", "interrupted"}

\* The lyric file found by find_lrc_for_track is one of its candidates.
SelectedIsCandidate ==
    lrc_path \notin {None, "manual"} =>
        \E k \in 1..Len(candidates) : candidates[k] = lrc_path

\* The outcome a track has ended in is not changed by a later step.
OutcomeKept ==
    \A t \in Tracks :
        outcome[t] \notin {"pending", "running"} => outcome'[t] = outcome[t]

\* C35: every process_track invocation ends in one outcome, done, skipped or
\* aborted (or is interrupted by the operator), and keeps it; an answer the
\* multiple-match prompt or the no-local-lyric prompt does not accept only
\* leads to the prompt again, with no upload, no relocation and no file
\* change; and the selected path is one of the listed candidates.
C35_EndsInOneOutcome ==
    /\ [][PromptStep /\ OutcomeKept]_vars
    /\ []SelectedIsCandidate
    /\ \A t \in Tracks :
        outcome[t] = "running"
            ~> outcome[t] \in {"done", "skipped", "aborted", "interrupted"}

====
